---- MODULE Spec2Model ----
(***************************************************************************)
(* A model of the dprint layout engine: the Printer of                     *)
(* crates/core/src/formatting/printer.rs driven over instruction graphs    *)
(* built with the helpers of parser_helpers/helpers.rs.                    *)
(*                                                                         *)
(* One action is one iteration of Printer::inner_print's loop: the        *)
(* handler of the current node followed by the loop's advance and pop.    *)
(* The Writer, the resolvers of conditions.rs / condition_resolvers.rs     *)
(* and the constructors of print_items.rs are not part of the sources at   *)
(* hand; they are modelled from the specification's description.           *)
(***************************************************************************)
EXTENDS Integers, Sequences, FiniteSets, TLC

\* ------------------------------------------------------------------ bounds
\* Longest run of atomic items inside the wrapping helper of a generated job.
MaxAtoms == 2
\* Longest run of atomic items in front of the wrapping helper.
MaxPrefix == 2
\* Longest arm of a generated condition.
MaxArm == 2
\* Most words of a generated String/SpaceOrNewLine word program.
MaxWords == 3
\* Largest argument of with_indent_times that is tried.
MaxTimes == 2
\* The narrow max_width that generated programs are printed with.
NarrowWidth == 4

\* --------------------------------------------------------- print items
\* PrintItem: one record shape for the five variants (kind says which).
\*   String    text, char_count
\*   Signal    signal
\*   Info      id
\*   Condition id, resolver, true_path, false_path, dependent_infos, is_stored;
\*             what the resolver closure captured: arg, start_info, end_info
\*   RcPath    true_path holds the referenced path
\* A path is a number naming one item chain of the graph; 0 is no path.
NoPath == 0

BlankItem ==
  [kind |-> "Signal", text |-> "", char_count |-> 0, signal |-> "", id |-> 0,
   resolver |-> "", true_path |-> NoPath, false_path |-> NoPath,
   dependent_infos |-> {}, is_stored |-> FALSE, arg |-> 0,
   start_info |-> 0, end_info |-> 0]

Str(t, n) == [BlankItem EXCEPT !.kind = "String", !.text = t, !.char_count = n]

Sig(s) == [BlankItem EXCEPT !.signal = s]

InfoItem(i) == [BlankItem EXCEPT !.kind = "Info", !.id = i]

RcPathItem(p) == [BlankItem EXCEPT !.kind = "RcPath", !.true_path = p]

\* Condition::new: not stored, no dependent infos.
ConditionNew(i, r, a, tp, fp) ==
  [BlankItem EXCEPT !.kind = "Condition", !.id = i, !.resolver = r, !.arg = a,
                    !.true_path = tp, !.false_path = fp]

\* Condition::new_with_dependent_infos: stored, with its dependent infos.
ConditionNewWithDependentInfos(i, r, a, tp, fp, deps) ==
  [ConditionNew(i, r, a, tp, fp) EXCEPT !.dependent_infos = deps, !.is_stored = TRUE]

\* ------------------------------------------------------- helpers.rs
surround_with_new_lines(item) ==
  IF item = <<>> THEN item
  ELSE <<Sig("NewLine")>> \o item \o <<Sig("NewLine")>>

RECURSIVE Repeat(_, _)
Repeat(x, n) == IF n = 0 THEN <<>> ELSE <<x>> \o Repeat(x, n - 1)

\* Mutant: one FinishIndent closes the indents, however many were started.
with_indent_times_closed_once(item, times) ==
  IF item = <<>> THEN item
  ELSE Repeat(Sig("StartIndent"), times) \o item \o <<Sig("FinishIndent")>>

with_indent_times(item, times) ==
  IF item = <<>> THEN item
  ELSE Repeat(Sig("StartIndent"), times) \o item \o Repeat(Sig("FinishIndent"), times)

with_indent(item) == with_indent_times(item, 1)

with_queued_indent(item) ==
  IF item = <<>> THEN item
  ELSE <<Sig("QueueStartIndent")>> \o item \o <<Sig("FinishIndent")>>

with_no_new_lines(item) ==
  IF item = <<>> THEN item
  ELSE <<Sig("StartForceNoNewLines")>> \o item \o <<Sig("FinishForceNoNewLines")>>

new_line_group(item) ==
  IF item = <<>> THEN item
  ELSE <<Sig("StartNewLineGroup")>> \o item \o <<Sig("FinishNewLineGroup")>>

\* ------------------------------------------------------------------ text
\* A text is the sequence of its characters.
IndexOf(text, c) ==
  IF \E i \in 1..Len(text) : text[i] = c
  THEN CHOOSE i \in 1..Len(text) : text[i] = c /\ \A k \in 1..(i - 1) : text[k] # c
  ELSE 0

ends_with(text, c) == text # <<>> /\ text[Len(text)] = c

\* str::split_terminator('\n'): the pieces between newlines, without a last
\* empty piece.
RECURSIVE split_terminator(_)
split_terminator(text) ==
  IF text = <<>> THEN <<>>
  ELSE IF IndexOf(text, "\n") = 0 THEN <<text>>
  ELSE <<SubSeq(text, 1, IndexOf(text, "\n") - 1)>>
         \o split_terminator(SubSeq(text, IndexOf(text, "\n") + 1, Len(text)))

\* str::lines(): the lines of a text, each without its "\n" or "\r\n".
lines(text) ==
  [i \in 1..Len(split_terminator(text)) |->
     LET line == split_terminator(text)[i]
     IN  IF ends_with(line, "\r") THEN SubSeq(line, 1, Len(line) - 1) ELSE line]

\* str::split('\t'): the pieces between tabs, empty ones included.
RECURSIVE split(_, _)
split(text, c) ==
  IF IndexOf(text, c) = 0 THEN <<text>>
  ELSE <<SubSeq(text, 1, IndexOf(text, c) - 1)>>
         \o split(SubSeq(text, IndexOf(text, c) + 1, Len(text)), c)

\* Mutant: the tabs between the pieces of a line are dropped.
RECURSIVE parse_pieces_without_tabs(_, _)
parse_pieces_without_tabs(pieces, i) ==
  IF i > Len(pieces) THEN <<>>
  ELSE (IF pieces[i] # <<>> THEN <<Str(pieces[i], Len(pieces[i]))>> ELSE <<>>)
         \o parse_pieces_without_tabs(pieces, i + 1)

\* The loop of parse_string_line over the pieces of a line.
RECURSIVE parse_pieces(_, _)
parse_pieces(pieces, i) ==
  IF i > Len(pieces) THEN <<>>
  ELSE (IF i > 1 THEN <<Sig("Tab")>> ELSE <<>>)
         \o (IF pieces[i] # <<>> THEN <<Str(pieces[i], Len(pieces[i]))>> ELSE <<>>)
         \o parse_pieces(pieces, i + 1)

parse_string_line(line) == parse_pieces(split(line, "\t"), 1)

\* The loop of parse_string_lines over the parsed lines of a text.
RECURSIVE extend_lines(_, _)
extend_lines(parsed_lines, i) ==
  IF i > Len(parsed_lines) THEN <<>>
  ELSE (IF i > 1 THEN <<Sig("NewLine")>> ELSE <<>>)
         \o parsed_lines[i]
         \o extend_lines(parsed_lines, i + 1)

\* parse_string_lines: parsed_lines is what parse_line makes of each line of
\* the text.
parse_string_lines(text, parsed_lines) ==
  extend_lines(parsed_lines, 1)
    \o (IF ends_with(text, "\n") THEN <<Sig("NewLine")>> ELSE <<>>)

parse_string(text) ==
  parse_string_lines(
    text, [i \in 1..Len(lines(text)) |-> parse_string_line(lines(text)[i])])

\* char::is_alphanumeric, on the characters of the texts searched.
is_alphanumeric(c) == c \in {"x", "i"}

\* str::find: the place of the first occurrence, 0 for None. Places count
\* from 1, and every character is one byte wide.
find(text, searching_text) ==
  LET occurs(p) ==
        /\ p + Len(searching_text) - 1 <= Len(text)
        /\ SubSeq(text, p, p + Len(searching_text) - 1) = searching_text
  IN  IF \E p \in 1..(Len(text) + 1) : occurs(p)
      THEN CHOOSE p \in 1..(Len(text) + 1) :
             occurs(p) /\ \A k \in 1..(p - 1) : ~occurs(k)
      ELSE 0

is_alpha_numeric_at_pos(text, pos) ==
  pos \in 1..Len(text) /\ is_alphanumeric(text[pos])

text_has_dprint_ignore(text, searching_text) ==
  LET pos == find(text, searching_text)
  IN  IF pos # 0
      THEN LET end == pos + Len(searching_text)
           IN  IF pos > 1 /\ is_alpha_numeric_at_pos(text, pos - 1) THEN FALSE
               ELSE IF is_alpha_numeric_at_pos(text, end) THEN FALSE
               ELSE TRUE
      ELSE FALSE

\* ------------------------------------------------------------- variables
VARIABLES
  \* the job: what the parser is asked to build, and the built graph
  job, paths, pc,
  \* Printer fields (printer.rs 55-76)
  possible_new_line_save_point, new_line_group_depth, force_no_newlines_depth,
  current_node, writer, resolved_conditions, resolved_infos,
  look_ahead_condition_save_points, look_ahead_info_save_points,
  next_node_stack, conditions_for_infos, max_width, skip_moving_next,
  resolving_save_point, stored_info_positions,
  \* WriterOptions.indent_width
  indent_width,
  \* history: the rewind of the last loop iteration, if it made one
  last,
  \* history: for each condition id, the save-point registered with it when
  \* the condition was first handled
  first_save_points,
  \* history: the ids whose look-ahead save-point a rewind has consumed and
  \* that the replay has not reached yet: infos, those of them cleared since
  \* with clear_info, conditions, and those of them that are not stored
  replaying,
  \* history: what has_info_moved returned for each info, the last two
  \* queries since an Info was last handled
  queried,
  \* a call of one of the functions outside the printer: its arguments, and
  \* what it returned
  call, returned

vars ==
  <<job, paths, pc, possible_new_line_save_point, new_line_group_depth,
    force_no_newlines_depth, current_node, writer, resolved_conditions,
    resolved_infos, look_ahead_condition_save_points,
    look_ahead_info_save_points, next_node_stack, conditions_for_infos,
    max_width, skip_moving_next, resolving_save_point, stored_info_positions,
    indent_width, last, first_save_points, replaying, queried, call, returned>>

\* No function outside the printer is being called.
NoCall == [fn |-> "none"]

NotReturned == [fn |-> "none"]

\* ------------------------------------------------------------------ maps
\* FnvHashMap / FastCellMap: functions whose domain is the set of keys.
EmptyMap == <<>>

MapInsert(m, k, v) == [x \in (DOMAIN m) \cup {k} |-> IF x = k THEN v ELSE m[x]]

MapRemove(m, k) == [x \in (DOMAIN m) \ {k} |-> m[x]]

\* ---------------------------------------------------------------- writer
\* WriteItem: Text(text), Tab, Space, NewLine, Indent(level).
WriteItem(k, t, l) == [kind |-> k, text |-> t, level |-> l]

WriterNew ==
  [current_line_column |-> 0, current_line_number |-> 0,
   last_line_indent_level |-> 0, indent_level |-> 0,
   expect_newline_next |-> FALSE, indent_queue_count |-> 0,
   last_was_not_trailing_space |-> FALSE, ignore_indent_count |-> 0,
   items |-> <<>>,
   \* history, not a field of the writer: the mark_expect_new_line calls
   \* made on the way to this state (a restored state forgets the later ones)
   expect_new_lines |-> 0,
   \* history, likewise: for each condition handled on the way to this
   \* state, whether its true path was taken, and the save-point registered
   \* with it for its dependent infos
   taken_arms |-> <<>>,
   registered |-> <<>>]

push_item(w, item) == [w EXCEPT !.items = Append(@, item)]

pop_item(w) == [w EXCEPT !.items = SubSeq(@, 1, Len(@) - 1)]

\* Mutant: the newline is appended after a trailing space.
writer_new_line_after_space(w) ==
  LET lvl == w.indent_level + w.indent_queue_count
  IN  push_item([w EXCEPT !.current_line_column = 0,
                          !.current_line_number = @ + 1,
                          !.indent_level = lvl,
                          !.indent_queue_count = 0,
                          !.last_line_indent_level = lvl,
                          !.expect_newline_next = FALSE,
                          !.last_was_not_trailing_space = FALSE],
                WriteItem("NewLine", "", 0))

\* new_line(): append newline; clear any trailing space; reset the column.
\* A queued indent takes effect here.
writer_new_line(w) ==
  LET w1 == IF w.last_was_not_trailing_space
            THEN [pop_item(w) EXCEPT !.last_was_not_trailing_space = FALSE]
            ELSE w
      lvl == w1.indent_level + w1.indent_queue_count
  IN  push_item([w1 EXCEPT !.current_line_column = 0,
                           !.current_line_number = @ + 1,
                           !.indent_level = lvl,
                           !.indent_queue_count = 0,
                           !.last_line_indent_level = lvl,
                           !.expect_newline_next = FALSE],
                WriteItem("NewLine", "", 0))

\* Before anything is put on a line: the newline owed to mark_expect_new_line,
\* then the line's indentation.
handle_first_column(w) ==
  LET w1 == IF w.expect_newline_next THEN writer_new_line(w) ELSE w
      w2 == [w1 EXCEPT !.last_was_not_trailing_space = FALSE]
  IN  IF w2.current_line_column = 0 /\ w2.indent_level > 0 /\ w2.ignore_indent_count = 0
      THEN push_item([w2 EXCEPT !.last_line_indent_level = w2.indent_level,
                                !.current_line_column = w2.indent_level * indent_width],
                     WriteItem("Indent", "", w2.indent_level))
      ELSE w2

\* write(text): append a text run; the column grows by char_count.
writer_write(w, item) ==
  LET w1 == handle_first_column(w)
  IN  push_item([w1 EXCEPT !.current_line_column = @ + item.char_count],
                WriteItem("Text", item.text, 0))

writer_space(w) ==
  LET w1 == handle_first_column(w)
  IN  push_item([w1 EXCEPT !.current_line_column = @ + 1], WriteItem("Space", "", 0))

LastIsSpace(w) == Len(w.items) > 0 /\ w.items[Len(w.items)].kind = "Space"

\* space_if_not_trailing(): a space, unless a newline is owed or the last
\* item is a space already.
space_if_not_trailing(w) ==
  IF w.expect_newline_next \/ LastIsSpace(w) THEN w
  ELSE [writer_space(w) EXCEPT !.last_was_not_trailing_space = TRUE]

writer_tab(w) ==
  LET w1 == handle_first_column(w)
  IN  push_item([w1 EXCEPT !.current_line_column = @ + indent_width], WriteItem("Tab", "", 0))

single_indent(w) ==
  LET w1 == handle_first_column(w)
  IN  push_item([w1 EXCEPT !.current_line_column = @ + indent_width], WriteItem("Indent", "", 1))

set_indent_level(w, lvl) ==
  [w EXCEPT !.indent_level = lvl,
            !.last_line_indent_level = IF w.current_line_column = 0 THEN lvl ELSE @]

start_indent(w) == set_indent_level(w, w.indent_level + 1)

\* finish_indent(): closes a queued indent that has not taken effect yet,
\* otherwise lowers the level.
finish_indent(w) ==
  IF w.indent_queue_count > 0 THEN [w EXCEPT !.indent_queue_count = @ - 1]
  ELSE set_indent_level(w, w.indent_level - 1)

queue_indent(w) == [w EXCEPT !.indent_queue_count = @ + 1]

start_ignoring_indent(w) == [w EXCEPT !.ignore_indent_count = @ + 1]

finish_ignoring_indent(w) == [w EXCEPT !.ignore_indent_count = @ - 1]

mark_expect_new_line(w) ==
  [w EXCEPT !.expect_newline_next = TRUE, !.expect_new_lines = @ + 1]

get_line_column(w) ==
  IF w.current_line_column = 0 THEN indent_width * w.indent_level
  ELSE w.current_line_column

get_line_start_column_number(w) == indent_width * w.last_line_indent_level

\* WriterState::get_writer_info / Printer::get_writer_info
writer_info_of(w) ==
  [line_start_indent_level |-> w.last_line_indent_level,
   line_start_column_number |-> get_line_start_column_number(w),
   line_number |-> w.current_line_number,
   column_number |-> get_line_column(w),
   indent_level |-> w.indent_level]

get_line_and_column(info) == <<info.line_number, info.column_number>>

\* --------------------------------------------------------------- graph
\* PrintItemPath: a node of the graph, named by its chain and its place in
\* it. NullNode is None.
NullNode == [path |-> 0, idx |-> 0]

IsNode(n) == n.path # 0

ItemAt(n) == paths[n.path][n.idx]

\* PrintNode.next
get_next(n) ==
  IF n.idx < Len(paths[n.path]) THEN [path |-> n.path, idx |-> n.idx + 1]
  ELSE NullNode

\* The first node of a chain; None for no chain or an empty one.
PathHead(q) ==
  IF q = NoPath THEN NullNode
  ELSE IF paths[q] = <<>> THEN NullNode
  ELSE [path |-> q, idx |-> 1]

\* -------------------------------------------------------------- printer
\* Option<&SavePoint>: None.
NoSavePoint == [name |-> "none"]

IsSome(sp) == sp.name # "none"

\* No look-ahead save-point has been consumed.
NotReplaying == [infos |-> {}, cleared |-> {}, conditions |-> {}, not_stored |-> {}]

\* The rewind an iteration made: whether for a new line, from which node,
\* to which save-point.
NoRewind ==
  [rewind |-> FALSE, is_for_new_line |-> FALSE, from |-> NullNode,
   save_point |-> NoSavePoint]

\* The Printer as one record, for the handlers to transform.
ThePrinter ==
  [possible_new_line_save_point |-> possible_new_line_save_point,
   new_line_group_depth |-> new_line_group_depth,
   force_no_newlines_depth |-> force_no_newlines_depth,
   current_node |-> current_node,
   writer |-> writer,
   resolved_conditions |-> resolved_conditions,
   resolved_infos |-> resolved_infos,
   look_ahead_condition_save_points |-> look_ahead_condition_save_points,
   look_ahead_info_save_points |-> look_ahead_info_save_points,
   next_node_stack |-> next_node_stack,
   conditions_for_infos |-> conditions_for_infos,
   skip_moving_next |-> skip_moving_next,
   resolving_save_point |-> resolving_save_point,
   stored_info_positions |-> stored_info_positions,
   last |-> NoRewind,
   first_save_points |-> first_save_points,
   replaying |-> replaying]

get_writer_info(p) == writer_info_of(p.writer)

\* Mutant: new lines are allowed whatever the depth.
allow_new_lines_always(p) == p.force_no_newlines_depth >= 0

allow_new_lines(p) == p.force_no_newlines_depth = 0

\* Mutant: a line that is exactly full counts as above the width.
is_at_max_width(p, offset) ==
  get_line_column(p.writer) + offset >= max_width

is_above_max_width(p, offset) == get_line_column(p.writer) + offset > max_width

\* Mutant: the written newline leaves the possible-new-line save-point alone.
write_new_line_keeping_save_point(p) ==
  [p EXCEPT !.writer = writer_new_line(p.writer)]

write_new_line(p) ==
  [p EXCEPT !.writer = writer_new_line(p.writer),
            !.possible_new_line_save_point = NoSavePoint]

create_save_point(p, name, next_node) ==
  [name |-> name,
   possible_new_line_save_point |-> p.possible_new_line_save_point,
   new_line_group_depth |-> p.new_line_group_depth,
   force_no_newlines_depth |-> p.force_no_newlines_depth,
   node |-> next_node,
   writer_state |-> p.writer,
   look_ahead_condition_save_points |-> p.look_ahead_condition_save_points,
   look_ahead_info_save_points |-> p.look_ahead_info_save_points,
   next_node_stack |-> p.next_node_stack]

get_save_point_for_restoring_condition(p, name) ==
  IF IsSome(p.resolving_save_point) THEN p.resolving_save_point
  ELSE create_save_point(p, name, p.current_node)

\* Mutant: the live save-point is replaced whatever its depth.
mark_possible_new_line_always(p) ==
  [p EXCEPT !.possible_new_line_save_point =
              create_save_point(p, "newline", get_next(p.current_node))]

\* Mutant: a save-point that is live is never replaced.
mark_possible_new_line_once(p) ==
  IF IsSome(p.possible_new_line_save_point) THEN p
  ELSE [p EXCEPT !.possible_new_line_save_point =
                   create_save_point(p, "newline", get_next(p.current_node))]

mark_possible_new_line_if_able(p) ==
  IF /\ IsSome(p.possible_new_line_save_point)
     /\ p.new_line_group_depth > p.possible_new_line_save_point.new_line_group_depth
  THEN p
  ELSE [p EXCEPT !.possible_new_line_save_point =
                   create_save_point(p, "newline", get_next(p.current_node))]

\* Mutant: the rewind leaves the continuations as they are.
update_state_keeping_stack(p, save_point, is_for_new_line) ==
  LET p1 == [p EXCEPT
               !.writer = save_point.writer_state,
               !.possible_new_line_save_point =
                 IF is_for_new_line THEN NoSavePoint
                 ELSE save_point.possible_new_line_save_point,
               !.current_node = save_point.node,
               !.new_line_group_depth = save_point.new_line_group_depth,
               !.force_no_newlines_depth = save_point.force_no_newlines_depth,
               !.look_ahead_condition_save_points = save_point.look_ahead_condition_save_points,
               !.look_ahead_info_save_points = save_point.look_ahead_info_save_points,
               !.last = [rewind |-> TRUE, is_for_new_line |-> is_for_new_line,
                         from |-> p.current_node, save_point |-> save_point]]
      p2 == IF is_for_new_line THEN write_new_line(p1) ELSE p1
  IN  [p2 EXCEPT !.skip_moving_next = TRUE]

\* Mutant: a rewind that is not for a new line leaves the live save-point.
update_state_keeping_possible_new_line(p, save_point, is_for_new_line) ==
  LET p1 == [p EXCEPT
               !.writer = save_point.writer_state,
               !.possible_new_line_save_point =
                 IF is_for_new_line THEN NoSavePoint
                 ELSE p.possible_new_line_save_point,
               !.current_node = save_point.node,
               !.new_line_group_depth = save_point.new_line_group_depth,
               !.force_no_newlines_depth = save_point.force_no_newlines_depth,
               !.look_ahead_condition_save_points = save_point.look_ahead_condition_save_points,
               !.look_ahead_info_save_points = save_point.look_ahead_info_save_points,
               !.next_node_stack = save_point.next_node_stack,
               !.last = [rewind |-> TRUE, is_for_new_line |-> is_for_new_line,
                         from |-> p.current_node, save_point |-> save_point]]
      p2 == IF is_for_new_line THEN write_new_line(p1) ELSE p1
  IN  [p2 EXCEPT !.skip_moving_next = TRUE]

\* Mutant: the writer keeps what it wrote since the save-point.
update_state_keeping_writer(p, save_point, is_for_new_line) ==
  LET p1 == [p EXCEPT
               !.possible_new_line_save_point =
                 IF is_for_new_line THEN NoSavePoint
                 ELSE save_point.possible_new_line_save_point,
               !.current_node = save_point.node,
               !.new_line_group_depth = save_point.new_line_group_depth,
               !.force_no_newlines_depth = save_point.force_no_newlines_depth,
               !.look_ahead_condition_save_points = save_point.look_ahead_condition_save_points,
               !.look_ahead_info_save_points = save_point.look_ahead_info_save_points,
               !.next_node_stack = save_point.next_node_stack,
               !.last = [rewind |-> TRUE, is_for_new_line |-> is_for_new_line,
                         from |-> p.current_node, save_point |-> save_point]]
      p2 == IF is_for_new_line THEN write_new_line(p1) ELSE p1
  IN  [p2 EXCEPT !.skip_moving_next = TRUE]

\* Mutant: the rewind leaves the new-line-group depth as it is.
update_state_keeping_depth(p, save_point, is_for_new_line) ==
  LET p1 == [p EXCEPT
               !.writer = save_point.writer_state,
               !.possible_new_line_save_point =
                 IF is_for_new_line THEN NoSavePoint
                 ELSE save_point.possible_new_line_save_point,
               !.current_node = save_point.node,
               !.force_no_newlines_depth = save_point.force_no_newlines_depth,
               !.look_ahead_condition_save_points = save_point.look_ahead_condition_save_points,
               !.look_ahead_info_save_points = save_point.look_ahead_info_save_points,
               !.next_node_stack = save_point.next_node_stack,
               !.last = [rewind |-> TRUE, is_for_new_line |-> is_for_new_line,
                         from |-> p.current_node, save_point |-> save_point]]
      p2 == IF is_for_new_line THEN write_new_line(p1) ELSE p1
  IN  [p2 EXCEPT !.skip_moving_next = TRUE]

\* Mutant: the rewind forgets the positions of the infos.
update_state_forgetting_infos(p, save_point, is_for_new_line) ==
  LET p1 == [p EXCEPT
               !.writer = save_point.writer_state,
               !.possible_new_line_save_point =
                 IF is_for_new_line THEN NoSavePoint
                 ELSE save_point.possible_new_line_save_point,
               !.current_node = save_point.node,
               !.new_line_group_depth = save_point.new_line_group_depth,
               !.force_no_newlines_depth = save_point.force_no_newlines_depth,
               !.look_ahead_condition_save_points = save_point.look_ahead_condition_save_points,
               !.look_ahead_info_save_points = save_point.look_ahead_info_save_points,
               !.next_node_stack = save_point.next_node_stack,
               !.resolved_infos = EmptyMap,
               !.last = [rewind |-> TRUE, is_for_new_line |-> is_for_new_line,
                         from |-> p.current_node, save_point |-> save_point]]
      p2 == IF is_for_new_line THEN write_new_line(p1) ELSE p1
  IN  [p2 EXCEPT !.skip_moving_next = TRUE]

update_state_to_save_point(p, save_point, is_for_new_line) ==
  LET p1 == [p EXCEPT
               !.writer = save_point.writer_state,
               !.possible_new_line_save_point =
                 IF is_for_new_line THEN NoSavePoint
                 ELSE save_point.possible_new_line_save_point,
               !.current_node = save_point.node,
               !.new_line_group_depth = save_point.new_line_group_depth,
               !.force_no_newlines_depth = save_point.force_no_newlines_depth,
               !.look_ahead_condition_save_points = save_point.look_ahead_condition_save_points,
               !.look_ahead_info_save_points = save_point.look_ahead_info_save_points,
               !.next_node_stack = save_point.next_node_stack,
               !.last = [rewind |-> TRUE, is_for_new_line |-> is_for_new_line,
                         from |-> p.current_node, save_point |-> save_point]]
      p2 == IF is_for_new_line THEN write_new_line(p1) ELSE p1
  IN  [p2 EXCEPT !.skip_moving_next = TRUE]

\* Mutant: the text is written whatever the width.
handle_string_no_rewind(p, text) == [p EXCEPT !.writer = writer_write(p.writer, text)]

\* Mutant: a String rewinds only to a save-point below the current depth.
handle_string_comparing_depths(p, text) ==
  IF /\ IsSome(p.possible_new_line_save_point)
     /\ is_above_max_width(p, text.char_count)
     /\ allow_new_lines(p)
     /\ p.possible_new_line_save_point.new_line_group_depth < p.new_line_group_depth
  THEN update_state_to_save_point(
         [p EXCEPT !.possible_new_line_save_point = NoSavePoint],
         p.possible_new_line_save_point, TRUE)
  ELSE [p EXCEPT !.writer = writer_write(p.writer, text)]

\* Mutant: the text that did not fit is written on the new line of the
\* rewind, ahead of the replay.
handle_string_writing_after_rewind(p, text) ==
  IF /\ IsSome(p.possible_new_line_save_point)
     /\ is_above_max_width(p, text.char_count)
     /\ allow_new_lines(p)
  THEN LET p1 == update_state_to_save_point(
                   [p EXCEPT !.possible_new_line_save_point = NoSavePoint],
                   p.possible_new_line_save_point, TRUE)
       IN  [p1 EXCEPT !.writer = writer_write(p1.writer, text)]
  ELSE [p EXCEPT !.writer = writer_write(p.writer, text)]

handle_string(p, text) ==
  IF /\ IsSome(p.possible_new_line_save_point)
     /\ is_above_max_width(p, text.char_count)
     /\ allow_new_lines(p)
  THEN update_state_to_save_point(
         [p EXCEPT !.possible_new_line_save_point = NoSavePoint],
         p.possible_new_line_save_point, TRUE)
  ELSE [p EXCEPT !.writer = writer_write(p.writer, text)]

\* Mutant: a save-point of the current depth is rewound to as well.
SpaceOrNewLine_rewinding_at_equal_depth(p) ==
  IF allow_new_lines(p)
  THEN IF is_above_max_width(p, 1)
       THEN LET optional_save_state == p.possible_new_line_save_point
                p1 == [p EXCEPT !.possible_new_line_save_point = NoSavePoint]
            IN  IF ~IsSome(optional_save_state) THEN write_new_line(p1)
                ELSE IF optional_save_state.new_line_group_depth > p.new_line_group_depth
                THEN write_new_line(p1)
                ELSE update_state_to_save_point(p1, optional_save_state, TRUE)
       ELSE LET p1 == mark_possible_new_line_if_able(p)
            IN  [p1 EXCEPT !.writer = space_if_not_trailing(p1.writer)]
  ELSE [p EXCEPT !.writer = space_if_not_trailing(p.writer)]

SpaceOrNewLine(p) ==
  IF allow_new_lines(p)
  THEN IF is_above_max_width(p, 1)
       THEN LET optional_save_state == p.possible_new_line_save_point
                p1 == [p EXCEPT !.possible_new_line_save_point = NoSavePoint]
            IN  IF ~IsSome(optional_save_state) THEN write_new_line(p1)
                ELSE IF optional_save_state.new_line_group_depth >= p.new_line_group_depth
                THEN write_new_line(p1)
                ELSE update_state_to_save_point(p1, optional_save_state, TRUE)
       ELSE LET p1 == mark_possible_new_line_if_able(p)
            IN  [p1 EXCEPT !.writer = space_if_not_trailing(p1.writer)]
  ELSE [p EXCEPT !.writer = space_if_not_trailing(p.writer)]

\* Mutant: ExpectNewLine obeys force_no_newlines_depth as NewLine does.
handle_signal_expecting_when_allowed(p, signal) ==
  CASE signal = "NewLine" -> IF allow_new_lines(p) THEN write_new_line(p) ELSE p
    [] signal = "Tab" -> [p EXCEPT !.writer = writer_tab(p.writer)]
    [] signal = "ExpectNewLine" ->
         IF allow_new_lines(p)
         THEN [p EXCEPT !.writer = mark_expect_new_line(p.writer),
                        !.possible_new_line_save_point = NoSavePoint]
         ELSE p
    [] signal = "PossibleNewLine" ->
         IF allow_new_lines(p) THEN mark_possible_new_line_if_able(p) ELSE p
    [] signal = "SpaceOrNewLine" -> SpaceOrNewLine(p)
    [] signal = "QueueStartIndent" -> [p EXCEPT !.writer = queue_indent(p.writer)]
    [] signal = "StartIndent" -> [p EXCEPT !.writer = start_indent(p.writer)]
    [] signal = "FinishIndent" -> [p EXCEPT !.writer = finish_indent(p.writer)]
    [] signal = "StartNewLineGroup" -> [p EXCEPT !.new_line_group_depth = @ + 1]
    [] signal = "FinishNewLineGroup" -> [p EXCEPT !.new_line_group_depth = @ - 1]
    [] signal = "SingleIndent" -> [p EXCEPT !.writer = single_indent(p.writer)]
    [] signal = "StartIgnoringIndent" -> [p EXCEPT !.writer = start_ignoring_indent(p.writer)]
    [] signal = "FinishIgnoringIndent" -> [p EXCEPT !.writer = finish_ignoring_indent(p.writer)]
    [] signal = "StartForceNoNewLines" -> [p EXCEPT !.force_no_newlines_depth = @ + 1]
    [] signal = "FinishForceNoNewLines" -> [p EXCEPT !.force_no_newlines_depth = @ - 1]
    [] signal = "SpaceIfNotTrailing" -> [p EXCEPT !.writer = space_if_not_trailing(p.writer)]

handle_signal(p, signal) ==
  CASE signal = "NewLine" -> IF allow_new_lines(p) THEN write_new_line(p) ELSE p
    [] signal = "Tab" -> [p EXCEPT !.writer = writer_tab(p.writer)]
    [] signal = "ExpectNewLine" ->
         [p EXCEPT !.writer = mark_expect_new_line(p.writer),
                   !.possible_new_line_save_point = NoSavePoint]
    [] signal = "PossibleNewLine" ->
         IF allow_new_lines(p) THEN mark_possible_new_line_if_able(p) ELSE p
    [] signal = "SpaceOrNewLine" -> SpaceOrNewLine(p)
    [] signal = "QueueStartIndent" -> [p EXCEPT !.writer = queue_indent(p.writer)]
    [] signal = "StartIndent" -> [p EXCEPT !.writer = start_indent(p.writer)]
    [] signal = "FinishIndent" -> [p EXCEPT !.writer = finish_indent(p.writer)]
    [] signal = "StartNewLineGroup" -> [p EXCEPT !.new_line_group_depth = @ + 1]
    [] signal = "FinishNewLineGroup" -> [p EXCEPT !.new_line_group_depth = @ - 1]
    [] signal = "SingleIndent" -> [p EXCEPT !.writer = single_indent(p.writer)]
    [] signal = "StartIgnoringIndent" -> [p EXCEPT !.writer = start_ignoring_indent(p.writer)]
    [] signal = "FinishIgnoringIndent" -> [p EXCEPT !.writer = finish_ignoring_indent(p.writer)]
    [] signal = "StartForceNoNewLines" -> [p EXCEPT !.force_no_newlines_depth = @ + 1]
    [] signal = "FinishForceNoNewLines" -> [p EXCEPT !.force_no_newlines_depth = @ - 1]
    [] signal = "SpaceIfNotTrailing" -> [p EXCEPT !.writer = space_if_not_trailing(p.writer)]

\* ---------------------------------------------- what resolvers may call
\* Each returns the printer as the call leaves it, with the call's result.
InfoIsResolved(p, info_id) == info_id \in DOMAIN p.resolved_infos

\* Mutant: the save-point of a registration is made after the insertion, so
\* its snapshot of the table has the entry being registered.
get_resolved_info_snapshot_after_insert(p, info_id) ==
  IF /\ ~(info_id \in DOMAIN p.resolved_infos)
     /\ info_id \notin DOMAIN p.look_ahead_info_save_points
  THEN LET save_point == get_save_point_for_restoring_condition(p, "info")
       IN  [p EXCEPT !.look_ahead_info_save_points =
                       MapInsert(@, info_id,
                         [save_point EXCEPT !.look_ahead_info_save_points =
                            MapInsert(@, info_id, NoSavePoint)])]
  ELSE p

\* Mutant: every query of an unresolved info registers a save-point anew.
get_resolved_info_replacing(p, info_id) ==
  IF ~(info_id \in DOMAIN p.resolved_infos)
  THEN [p EXCEPT !.look_ahead_info_save_points =
                   MapInsert(@, info_id, get_save_point_for_restoring_condition(p, "info"))]
  ELSE p

\* get_resolved_info: registers a look-ahead save-point for an info that is
\* not resolved yet and has none; the result is resolved_infos[info_id].
get_resolved_info(p, info_id) ==
  IF /\ ~InfoIsResolved(p, info_id)
     /\ info_id \notin DOMAIN p.look_ahead_info_save_points
  THEN [p EXCEPT !.look_ahead_info_save_points =
                   MapInsert(@, info_id, get_save_point_for_restoring_condition(p, "info"))]
  ELSE p

clear_info(p, info_id) ==
  [p EXCEPT !.resolved_infos = MapRemove(@, info_id),
            !.replaying.cleared = IF info_id \in p.replaying.infos
                                  THEN @ \cup {info_id} ELSE @]

\* Option<bool> is "true", "false" or "none".
Some(b) == IF b THEN "true" ELSE "false"

\* Mutant: a moved info is reported and the stored position is left as it is.
has_info_moved_keeping_stored(p, info_id) ==
  LET p1 == get_resolved_info(p, info_id)
  IN  IF ~InfoIsResolved(p, info_id) THEN [value |-> "none", p |-> p1]
      ELSE LET position == get_line_and_column(p.resolved_infos[info_id])
           IN  IF info_id \in DOMAIN p1.stored_info_positions
               THEN IF position # p1.stored_info_positions[info_id]
                    THEN [value |-> "true", p |-> p1]
                    ELSE [value |-> "false", p |-> p1]
               ELSE [value |-> "false",
                     p |-> [p1 EXCEPT !.stored_info_positions =
                                        MapInsert(@, info_id, position)]]

has_info_moved(p, info_id) ==
  LET p1 == get_resolved_info(p, info_id)
  IN  IF ~InfoIsResolved(p, info_id) THEN [value |-> "none", p |-> p1]
      ELSE LET position == get_line_and_column(p.resolved_infos[info_id])
           IN  IF info_id \in DOMAIN p1.stored_info_positions
               THEN IF position # p1.stored_info_positions[info_id]
                    THEN [value |-> "true",
                          p |-> [p1 EXCEPT !.stored_info_positions =
                                             MapInsert(@, info_id, position)]]
                    ELSE [value |-> "false", p |-> p1]
               ELSE [value |-> "false",
                     p |-> [p1 EXCEPT !.stored_info_positions =
                                        MapInsert(@, info_id, position)]]

\* condition_resolvers::is_multiple_lines
is_multiple_lines(p, start_info, end_info) ==
  LET p1 == get_resolved_info(p, start_info)
  IN  IF ~InfoIsResolved(p, start_info) THEN [value |-> "none", p |-> p1]
      ELSE LET p2 == get_resolved_info(p1, end_info)
           IN  IF ~InfoIsResolved(p1, end_info) THEN [value |-> "none", p |-> p2]
               ELSE [value |-> Some(p2.resolved_infos[end_info].line_number
                                      > p2.resolved_infos[start_info].line_number),
                     p |-> p2]

\* The resolver of surround_with_newlines_indented_if_multi_line's condition.
newline_if_multi_line(p, start_info, end_info) ==
  LET moved == has_info_moved(p, start_info)
  IN  IF moved.value = "none" THEN moved
      ELSE is_multiple_lines(
             IF moved.value = "true" THEN clear_info(moved.p, end_info) ELSE moved.p,
             start_info, end_info)

\* conditions::if_above_width's resolver.
if_above_width_resolver(p, width, writer_info) ==
  [value |-> Some(writer_info.column_number
                    > writer_info.line_start_column_number + width),
   p |-> p]

\* Mutant: a look-ahead save-point is registered whether or not the
\* condition has an entry in resolved_conditions.
get_resolved_condition_registering_resolved(p, condition_id) ==
  LET p1 == IF condition_id \notin DOMAIN p.look_ahead_condition_save_points
            THEN [p EXCEPT !.look_ahead_condition_save_points =
                             MapInsert(@, condition_id,
                               get_save_point_for_restoring_condition(p, "condition"))]
            ELSE p
  IN  [value |-> IF condition_id \in DOMAIN p.resolved_conditions
                 THEN p.resolved_conditions[condition_id] ELSE "none",
       p |-> p1]

\* get_resolved_condition: registers a look-ahead save-point for a condition
\* that has no entry in resolved_conditions and no look-ahead save-point yet;
\* the result is the entry, None when there is none.
get_resolved_condition(p, condition_id) ==
  LET p1 == IF /\ condition_id \notin DOMAIN p.resolved_conditions
               /\ condition_id \notin DOMAIN p.look_ahead_condition_save_points
            THEN [p EXCEPT !.look_ahead_condition_save_points =
                             MapInsert(@, condition_id,
                               get_save_point_for_restoring_condition(p, "condition"))]
            ELSE p
  IN  [value |-> IF condition_id \in DOMAIN p.resolved_conditions
                 THEN p.resolved_conditions[condition_id] ELSE "none",
       p |-> p1]

\* A parser's resolver: the result of the referenced condition.
is_condition_true(p, condition_id) == get_resolved_condition(p, condition_id)

\* A parser's resolver: whether the info is more than width columns past the
\* context's position; not known while the info is unresolved or on a later
\* line.
is_info_beyond(p, info_id, width, writer_info) ==
  LET p1 == get_resolved_info(p, info_id)
  IN  IF ~InfoIsResolved(p, info_id) THEN [value |-> "none", p |-> p1]
      ELSE IF p1.resolved_infos[info_id].line_number > writer_info.line_number
      THEN [value |-> "none", p |-> p1]
      ELSE [value |-> Some(p1.resolved_infos[info_id].column_number
                             > writer_info.column_number + width),
            p |-> p1]

\* Condition::resolve: runs the condition's resolver on a context made of
\* the printer and a writer info.
resolve(p, condition, writer_info) ==
  CASE condition.resolver = "ifAboveWidth" ->
         if_above_width_resolver(p, condition.arg, writer_info)
    [] condition.resolver = "newlineIfMultiLine" ->
         newline_if_multi_line(p, condition.start_info, condition.end_info)
    [] condition.resolver = "isConditionTrue" ->
         is_condition_true(p, condition.arg)
    [] condition.resolver = "isInfoBeyond" ->
         is_info_beyond(p, condition.end_info, condition.arg, writer_info)

\* ------------------------------------------------------------ handle_info
\* The loop over conditions_for_infos[info_id], in the order the map yields
\* its values: order is a sequence of the condition ids.
RECURSIVE reevaluate_conditions(_, _, _, _)
reevaluate_conditions(p, conditions_for_info, order, i) ==
  IF i > Len(order) THEN p
  ELSE
    LET condition == conditions_for_info[order[i]].condition
        save_point == conditions_for_info[order[i]].save_point
        condition_id == condition.id
    IN  IF /\ condition_id \in DOMAIN p.resolved_conditions
           /\ p.resolved_conditions[condition_id] # "none"
        THEN LET resolved_condition_value == p.resolved_conditions[condition_id]
                 r == resolve([p EXCEPT !.resolving_save_point = save_point],
                              condition, writer_info_of(save_point.writer_state))
                 p1 == [r.p EXCEPT !.resolving_save_point = NoSavePoint]
             IN  IF r.value # "none"
                 THEN IF r.value # resolved_condition_value
                      THEN update_state_to_save_point(p1, save_point, FALSE)
                      ELSE reevaluate_conditions(p1, conditions_for_info, order, i + 1)
                 ELSE reevaluate_conditions(
                        [p1 EXCEPT !.resolved_conditions = MapRemove(@, condition_id)],
                        conditions_for_info, order, i + 1)
        ELSE reevaluate_conditions(p, conditions_for_info, order, i + 1)

\* Mutant: an awaited info only consumes its look-ahead save-point.
handle_info_without_rewinding(p, info, order) ==
  LET info_id == info.id
      p1 == [p EXCEPT !.resolved_infos = MapInsert(@, info_id, get_writer_info(p))]
  IN  IF info_id \in DOMAIN p1.look_ahead_info_save_points
      THEN [p1 EXCEPT !.look_ahead_info_save_points = MapRemove(@, info_id)]
      ELSE IF info_id \in DOMAIN p1.conditions_for_infos
      THEN reevaluate_conditions(p1, p1.conditions_for_infos[info_id], order, 1)
      ELSE p1

handle_info(p, info, order) ==
  LET info_id == info.id
      awaited == info_id \in DOMAIN p.look_ahead_info_save_points
      p1 == [p EXCEPT !.resolved_infos = MapInsert(@, info_id, get_writer_info(p)),
                      !.replaying.infos = IF awaited THEN @ \cup {info_id}
                                          ELSE @ \ {info_id},
                      !.replaying.cleared = @ \ {info_id}]
  IN  IF info_id \in DOMAIN p1.look_ahead_info_save_points
      THEN update_state_to_save_point(
             [p1 EXCEPT !.look_ahead_info_save_points = MapRemove(@, info_id)],
             p1.look_ahead_info_save_points[info_id], FALSE)
      ELSE IF info_id \in DOMAIN p1.conditions_for_infos
      THEN reevaluate_conditions(p1, p1.conditions_for_infos[info_id], order, 1)
      ELSE p1

\* The orders in which a map of the given keys may yield its values.
RECURSIVE Orders(_)
Orders(keys) ==
  IF keys = {} THEN {<<>>}
  ELSE UNION {{<<k>> \o o : o \in Orders(keys \ {k})} : k \in keys}

IterationOrders(p, info_id) ==
  IF info_id \in DOMAIN p.conditions_for_infos
  THEN Orders(DOMAIN p.conditions_for_infos[info_id])
  ELSE {<<>>}

\* ------------------------------------------------------- handle_condition
\* Mutant: the save-point registered when the condition was first handled is
\* kept.
RECURSIVE register_dependent_infos_keeping_first(_, _, _)
register_dependent_infos_keeping_first(p, condition, infos) ==
  IF infos = {} THEN p
  ELSE
    LET info_id == CHOOSE x \in infos : \A y \in infos : x <= y
        conditions == IF info_id \in DOMAIN p.conditions_for_infos
                      THEN p.conditions_for_infos[info_id] ELSE EmptyMap
        save_point == IF condition.id \in DOMAIN conditions
                      THEN conditions[condition.id].save_point
                      ELSE get_save_point_for_restoring_condition(p, "condition")
        p1 == [p EXCEPT !.conditions_for_infos =
                 MapInsert(@, info_id,
                   MapInsert(conditions, condition.id,
                             [condition |-> condition, save_point |-> save_point])),
                        !.first_save_points =
                          IF condition.id \in DOMAIN @ THEN @
                          ELSE MapInsert(@, condition.id, save_point)]
    IN  register_dependent_infos_keeping_first(p1, condition, infos \ {info_id})

\* Registers the condition with its save-point under each dependent info.
RECURSIVE register_dependent_infos(_, _, _)
register_dependent_infos(p, condition, infos) ==
  IF infos = {} THEN p
  ELSE
    LET info_id == CHOOSE x \in infos : \A y \in infos : x <= y
        save_point == get_save_point_for_restoring_condition(p, "condition")
        conditions == IF info_id \in DOMAIN p.conditions_for_infos
                      THEN p.conditions_for_infos[info_id] ELSE EmptyMap
        p1 == [p EXCEPT !.conditions_for_infos =
                 MapInsert(@, info_id,
                   MapInsert(conditions, condition.id,
                             [condition |-> condition, save_point |-> save_point])),
                        !.first_save_points =
                          IF condition.id \in DOMAIN @ THEN @
                          ELSE MapInsert(@, condition.id, save_point)]
    IN  register_dependent_infos(p1, condition, infos \ {info_id})

\* Mutant: a look-ahead save-point of the condition is consumed whatever the
\* result.
handle_condition_consuming_on_none(p, condition, next_node) ==
  LET condition_id == condition.id
      p1 == register_dependent_infos(p, condition, condition.dependent_infos)
      r == resolve(p1, condition, get_writer_info(p1))
      condition_value == r.value
      p2 == IF condition.is_stored
            THEN [r.p EXCEPT !.resolved_conditions =
                               MapInsert(@, condition_id, condition_value)]
            ELSE r.p
  IN  IF condition_id \in DOMAIN p2.look_ahead_condition_save_points
      THEN update_state_to_save_point(
             [p2 EXCEPT !.look_ahead_condition_save_points = MapRemove(@, condition_id)],
             p2.look_ahead_condition_save_points[condition_id], FALSE)
      ELSE LET path == IF condition_value = "true"
                       THEN PathHead(condition.true_path)
                       ELSE PathHead(condition.false_path)
           IN  IF IsNode(path)
               THEN [p2 EXCEPT !.current_node = path,
                               !.next_node_stack = Append(@, next_node),
                               !.skip_moving_next = TRUE]
               ELSE p2

\* Mutant: only a result Some(_) of a stored condition is memoized.
handle_condition_storing_some(p, condition, next_node) ==
  LET condition_id == condition.id
      p1 == register_dependent_infos(p, condition, condition.dependent_infos)
      r == resolve(p1, condition, get_writer_info(p1))
      condition_value == r.value
      p2 == IF condition.is_stored /\ condition_value # "none"
            THEN [r.p EXCEPT !.resolved_conditions =
                               MapInsert(@, condition_id, condition_value)]
            ELSE r.p
  IN  IF /\ condition_value # "none"
         /\ condition_id \in DOMAIN p2.look_ahead_condition_save_points
      THEN update_state_to_save_point(
             [p2 EXCEPT !.look_ahead_condition_save_points = MapRemove(@, condition_id)],
             p2.look_ahead_condition_save_points[condition_id], FALSE)
      ELSE LET path == IF condition_value = "true"
                       THEN PathHead(condition.true_path)
                       ELSE PathHead(condition.false_path)
           IN  IF IsNode(path)
               THEN [p2 EXCEPT !.current_node = path,
                               !.next_node_stack = Append(@, next_node),
                               !.skip_moving_next = TRUE]
               ELSE p2

handle_condition(p, condition, next_node) ==
  LET condition_id == condition.id
      p1 == register_dependent_infos(p, condition, condition.dependent_infos)
      r == resolve(p1, condition, get_writer_info(p1))
      condition_value == r.value
      p2 == IF condition.is_stored
            THEN [r.p EXCEPT !.resolved_conditions =
                               MapInsert(@, condition_id, condition_value)]
            ELSE r.p
  IN  IF /\ condition_value # "none"
         /\ condition_id \in DOMAIN p2.look_ahead_condition_save_points
      THEN update_state_to_save_point(
             [p2 EXCEPT !.look_ahead_condition_save_points = MapRemove(@, condition_id),
                        !.replaying.conditions = @ \cup {condition_id},
                        !.replaying.not_stored =
                          IF condition.is_stored THEN @ \ {condition_id}
                          ELSE @ \cup {condition_id}],
             p2.look_ahead_condition_save_points[condition_id], FALSE)
      ELSE LET path == IF condition_value = "true"
                       THEN PathHead(condition.true_path)
                       ELSE PathHead(condition.false_path)
               infos == condition.dependent_infos
               p3 == [p2 EXCEPT
                        !.replaying.conditions = @ \ {condition_id},
                        !.replaying.not_stored = @ \ {condition_id},
                        !.writer.taken_arms =
                          MapInsert(@, condition_id, condition_value = "true"),
                        !.writer.registered =
                          IF infos = {} THEN @
                          ELSE MapInsert(@, condition_id,
                                 p1.conditions_for_infos[CHOOSE i \in infos : TRUE]
                                   [condition_id].save_point)]
           IN  IF IsNode(path)
               THEN [p3 EXCEPT !.current_node = path,
                               !.next_node_stack = Append(@, next_node),
                               !.skip_moving_next = TRUE]
               ELSE p3

\* Mutant: the node after the RcPath is not kept for later.
handle_rc_path_dropping_next(p, print_item_path, next_node) ==
  [p EXCEPT !.current_node = print_item_path,
            !.skip_moving_next = TRUE]

handle_rc_path(p, print_item_path, next_node) ==
  [p EXCEPT !.next_node_stack = Append(@, next_node),
            !.current_node = print_item_path,
            !.skip_moving_next = TRUE]

\* ------------------------------------------------------------ inner_print
\* The end of one iteration: advance unless told to skip, then pop
\* continuations while there is no current node.
RECURSIVE pop_next_nodes(_)
pop_next_nodes(p) ==
  IF ~IsNode(p.current_node) /\ p.next_node_stack # <<>>
  THEN pop_next_nodes(
         [p EXCEPT !.current_node = p.next_node_stack[Len(p.next_node_stack)],
                   !.next_node_stack = SubSeq(@, 1, Len(@) - 1)])
  ELSE p

move_next(p) ==
  pop_next_nodes(
    IF p.skip_moving_next THEN [p EXCEPT !.skip_moving_next = FALSE]
    ELSE IF IsNode(p.current_node)
    THEN [p EXCEPT !.current_node = get_next(p.current_node)]
    ELSE p)

\* surround_with_newlines_indented_if_multi_line: the chains of the graph it
\* builds, the first being the returned items. The ids are those the
\* Info and Condition counters hand out in the order of the constructor calls.
surround_with_newlines_indented_if_multi_line(inner_items, width) ==
  IF inner_items = <<>> THEN <<inner_items>>
  ELSE
    LET start_info == 1
        end_info == 2
        inner_path == 4
        if_above_width == ConditionNew(1, "ifAboveWidth", width, 5, NoPath)
        condition ==
          [ConditionNewWithDependentInfos(2, "newlineIfMultiLine", 0, 2, 3, {end_info})
             EXCEPT !.start_info = start_info, !.end_info = end_info]
    IN  << <<InfoItem(start_info), condition, InfoItem(end_info)>>,
           surround_with_new_lines(with_indent(<<RcPathItem(inner_path)>>)),
           <<if_above_width, RcPathItem(inner_path)>>,
           inner_items,
           <<Sig("PossibleNewLine")>> >>

\* ------------------------------------------------------------- the jobs
\* What a parser hands to the printer: items built with the helpers, and
\* the PrinterOptions.
RECURSIVE SeqsUpTo(_, _)
SeqsUpTo(S, n) ==
  IF n = 0 THEN {<<>>}
  ELSE SeqsUpTo(S, n - 1) \cup
       {Append(q, x) : q \in {r \in SeqsUpTo(S, n - 1) : Len(r) = n - 1}, x \in S}

Atoms ==
  {Str("aa", 2), Str("bbb", 3), Sig("SpaceOrNewLine"), Sig("PossibleNewLine"),
   Sig("NewLine"), Sig("ExpectNewLine"), Sig("Tab"), Sig("SpaceIfNotTrailing")}

PrefixAtoms ==
  {Str("aa", 2), Sig("SpaceOrNewLine"), Sig("PossibleNewLine"), Sig("ExpectNewLine")}

ArmAtoms == {Str("aa", 2), Sig("NewLine")}

Wraps ==
  {"none", "with_indent", "with_indent_times", "with_queued_indent", "with_no_new_lines",
   "new_line_group", "surround_with_new_lines", "group_of_no_new_lines",
   "ignoring_indent"}

Wrap(wrap, times, item) ==
  CASE wrap = "none" -> item
    [] wrap = "with_indent" -> with_indent(item)
    [] wrap = "with_indent_times" -> with_indent_times(item, times)
    [] wrap = "with_queued_indent" -> with_queued_indent(item)
    [] wrap = "with_no_new_lines" -> with_no_new_lines(item)
    [] wrap = "new_line_group" -> new_line_group(item)
    [] wrap = "surround_with_new_lines" -> surround_with_new_lines(item)
    [] wrap = "group_of_no_new_lines" -> new_line_group(with_no_new_lines(item))
    [] wrap = "ignoring_indent" ->
         with_indent(<<Sig("StartIgnoringIndent")>> \o item
                       \o <<Sig("NewLine"), Sig("FinishIgnoringIndent")>>)

Job(family, prefix, wrap, times, body, arm, suffix, mw, iw) ==
  [family |-> family, prefix |-> prefix, wrap |-> wrap, times |-> times,
   body |-> body, arm |-> arm, suffix |-> suffix,
   max_width |-> mw, indent_width |-> iw]

\* String (SpaceOrNewLine String)*
RECURSIVE JoinWords(_)
JoinWords(ws) ==
  IF Len(ws) <= 1 THEN ws
  ELSE <<ws[1], Sig("SpaceOrNewLine")>> \o JoinWords(Tail(ws))

Words == {Str("foo", 3), Str("foooo", 5)}

WordJobs ==
  {Job("words", <<>>, w, 1, JoinWords(ws), <<>>, <<>>, mw, 2) :
     w \in {"none", "new_line_group"},
     ws \in SeqsUpTo(Words, MaxWords) \ {<<>>},
     mw \in {NarrowWidth + 3, 10}}

SegmentJobs ==
  {Job("segments", pre, w, t, body, <<>>, suf, NarrowWidth, 2) :
     pre \in SeqsUpTo(PrefixAtoms, MaxPrefix),
     w \in Wraps \ {"with_indent_times"},
     t \in {1},
     body \in SeqsUpTo(Atoms, MaxAtoms),
     suf \in {<<>>, <<Str("bbb", 3)>>, <<Sig("SpaceOrNewLine")>>}}
  \cup
  {Job("segments", <<>>, "with_indent_times", t, body, <<>>, <<>>, NarrowWidth, 2) :
     t \in 0..MaxTimes, body \in SeqsUpTo(Atoms, MaxAtoms)}

MultiLineJobs ==
  {Job("multi_line", pre, w, 1, body, <<>>, <<>>, NarrowWidth + 2, 2) :
     pre \in SeqsUpTo(PrefixAtoms, 1),
     w \in {"none", "with_no_new_lines"},
     body \in SeqsUpTo(Atoms, MaxAtoms)}

ConditionJobs ==
  {Job("condition", <<>>, "none", 1, body, arm, <<>>, NarrowWidth, 2) :
     body \in SeqsUpTo(ArmAtoms, MaxArm), arm \in SeqsUpTo(ArmAtoms, MaxArm)}

\* The scenarios of the specification, printed with max_width 10 and
\* indent_width 2.
Scenario(name, items) == Job(name, <<>>, "none", 1, items, <<>>, <<>>, 10, 2)

S1 == Scenario("S1", <<Str("foo", 3), Sig("SpaceOrNewLine"), Str("bar", 3)>>)

S2Items ==
  <<Str("foooo", 5), Sig("SpaceOrNewLine"), Str("bar", 3), Sig("SpaceOrNewLine"),
    Str("baz", 3)>>

S2 == Scenario("S2", S2Items)

S3 == Scenario("S3", new_line_group(S2Items))

S4 ==
  Scenario("S4", with_no_new_lines(<<Str("aaaaaa", 6), Sig("SpaceOrNewLine"),
                                     Str("bbbbbb", 6)>>))

S5 == Scenario("S5", <<Str("x", 1), Sig("NewLine"), Str("y", 1)>>)

S5OneLine == Scenario("S5OneLine", <<Str("x", 1)>>)

\* A stored condition that depends on the info after its paths.
StoredConditionJobs ==
  {Job("stored_condition", pre, "none", t, body, arm, <<>>, NarrowWidth, 2) :
     pre \in {<<>>, <<Str("aa", 2)>>, <<Str("aa", 2), Sig("SpaceOrNewLine")>>},
     t \in {0, 2},
     body \in SeqsUpTo(ArmAtoms, MaxArm), arm \in SeqsUpTo(ArmAtoms, MaxArm)}

\* A condition on the result of a stored condition that follows it, and the
\* info the stored condition asks for in a shared path after both; the
\* family names the resolver of the referenced condition. In the family
\* "referenced_not_stored" the referenced condition is on the width and is
\* not stored.
ReferencedConditionJobs ==
  {Job(f, pre, "none", t, body, arm, <<>>, NarrowWidth, 2) :
     f \in {"referenced_if_above_width", "referenced_is_info_beyond",
            "referenced_not_stored"},
     pre \in {<<>>, <<Str("aa", 2)>>},
     t \in {0, 2},
     body \in SeqsUpTo(ArmAtoms, MaxArm), arm \in SeqsUpTo(ArmAtoms, MaxArm)}

\* An info that two conditions ask for before it is printed
\* ("queried_twice"), and a stored condition whose paths come before the
\* start info it watches, so that the start info has moved when the end
\* info it depends on is printed ("queried_again"); and a stored condition
\* inside the arm of a condition on the width, depending on an info that
\* follows the outer condition ("condition_in_arm"); and a condition before
\* a SpaceOrNewLine and the start info it watches, so that a new-line rewind
\* moves the start info while the end info is awaited
\* ("cleared_in_replay").
LookAheadJobs ==
  {Job(f, <<>>, "none", t, body, arm, <<>>, NarrowWidth, 2) :
     f \in {"queried_twice", "queried_again", "condition_in_arm",
            "cleared_in_replay"},
     t \in {0, 2},
     body \in SeqsUpTo(ArmAtoms, MaxArm), arm \in SeqsUpTo(ArmAtoms, MaxArm)}

ScenarioJobs == {S1, S2, S3, S4, S5, S5OneLine}

Jobs == WordJobs \cup SegmentJobs \cup MultiLineJobs \cup ConditionJobs
          \cup StoredConditionJobs \cup ReferencedConditionJobs \cup LookAheadJobs
          \cup ScenarioJobs

\* The chains of the graph a job builds; the first is the start path.
Build(j) ==
  CASE j.family \in {"words", "segments", "S1", "S2", "S3", "S4"} ->
         <<j.prefix \o Wrap(j.wrap, j.times, j.body) \o j.suffix>>
    [] j.family \in {"multi_line", "S5", "S5OneLine"} ->
         LET g == surround_with_newlines_indented_if_multi_line(j.body, j.indent_width)
         IN  [g EXCEPT ![1] = j.prefix \o Wrap(j.wrap, j.times, @)]
    [] j.family = "condition" ->
         << <<InfoItem(1),
              [ConditionNewWithDependentInfos(1, "newlineIfMultiLine", 0, 2, 3, {2})
                 EXCEPT !.start_info = 1, !.end_info = 2],
              InfoItem(2)>>,
            j.body, j.arm >>
    [] j.family \in {"referenced_if_above_width", "referenced_is_info_beyond",
                     "referenced_not_stored"} ->
         << j.prefix \o
              <<ConditionNew(1, "isConditionTrue", 2, 2, NoPath),
                [ConditionNew(2, IF j.family = "referenced_is_info_beyond"
                                 THEN "isInfoBeyond" ELSE "ifAboveWidth",
                              j.times, 3, 4)
                   EXCEPT !.is_stored = (j.family # "referenced_not_stored"),
                          !.end_info = 1],
                RcPathItem(5)>>,
            <<Str("aa", 2)>>, j.body, j.arm, <<InfoItem(1)>> >>
    [] j.family = "stored_condition" ->
         << j.prefix \o
              <<[ConditionNewWithDependentInfos(1, "isInfoBeyond", j.times, 2, 3, {1})
                   EXCEPT !.end_info = 1],
                InfoItem(1)>>,
            j.body, j.arm >>
    [] j.family = "cleared_in_replay" ->
         << <<[ConditionNew(1, "newlineIfMultiLine", 0, 2, 3)
                 EXCEPT !.start_info = 1, !.end_info = 2],
              Sig("SpaceOrNewLine"), InfoItem(1), Str("aa", 2), Str("bbb", 3),
              InfoItem(2)>>,
            j.body, j.arm >>
    [] j.family = "queried_twice" ->
         << <<[ConditionNew(1, "isInfoBeyond", j.times, 2, 3) EXCEPT !.end_info = 1],
              Str("aa", 2),
              [ConditionNew(2, "isInfoBeyond", j.times, 2, 3) EXCEPT !.end_info = 1],
              InfoItem(1)>>,
            j.body, j.arm >>
    [] j.family = "condition_in_arm" ->
         << <<InfoItem(1), Str("aa", 2), Sig("SpaceOrNewLine"), InfoItem(2),
              ConditionNew(1, "ifAboveWidth", j.times, 2, NoPath),
              InfoItem(3)>>,
            <<Str("x", 1),
              [ConditionNewWithDependentInfos(2, "newlineIfMultiLine", 0, 3, 4, {3})
                 EXCEPT !.start_info = 1, !.end_info = 2]>>,
            j.body, j.arm >>
    [] j.family = "queried_again" ->
         << <<[ConditionNewWithDependentInfos(1, "newlineIfMultiLine", 0, 2, 3, {2})
                 EXCEPT !.start_info = 1, !.end_info = 2],
              InfoItem(1), Str("aa", 2), Sig("SpaceOrNewLine"), Str("bbb", 3),
              InfoItem(2)>>,
            j.body, j.arm >>

\* ------------------------------------------------------------ behaviour
Init ==
  /\ job \in Jobs
  /\ paths = <<>>
  /\ pc = "parse"
  /\ possible_new_line_save_point = NoSavePoint
  /\ new_line_group_depth = 0
  /\ force_no_newlines_depth = 0
  /\ current_node = NullNode
  /\ writer = WriterNew
  /\ resolved_conditions = EmptyMap
  /\ resolved_infos = EmptyMap
  /\ look_ahead_condition_save_points = EmptyMap
  /\ look_ahead_info_save_points = EmptyMap
  /\ next_node_stack = <<>>
  /\ conditions_for_infos = EmptyMap
  /\ max_width = job.max_width
  /\ skip_moving_next = FALSE
  /\ resolving_save_point = NoSavePoint
  /\ stored_info_positions = EmptyMap
  /\ indent_width = job.indent_width
  /\ last = NoRewind
  /\ first_save_points = EmptyMap
  /\ replaying = NotReplaying
  /\ queried = EmptyMap
  /\ call = NoCall
  /\ returned = NotReturned

\* The printer's fields become those of p.
Becomes(p) ==
  /\ possible_new_line_save_point' = p.possible_new_line_save_point
  /\ new_line_group_depth' = p.new_line_group_depth
  /\ force_no_newlines_depth' = p.force_no_newlines_depth
  /\ current_node' = p.current_node
  /\ writer' = p.writer
  /\ resolved_conditions' = p.resolved_conditions
  /\ resolved_infos' = p.resolved_infos
  /\ look_ahead_condition_save_points' = p.look_ahead_condition_save_points
  /\ look_ahead_info_save_points' = p.look_ahead_info_save_points
  /\ next_node_stack' = p.next_node_stack
  /\ conditions_for_infos' = p.conditions_for_infos
  /\ skip_moving_next' = p.skip_moving_next
  /\ resolving_save_point' = p.resolving_save_point
  /\ stored_info_positions' = p.stored_info_positions
  /\ last' = p.last
  /\ first_save_points' = p.first_save_points
  /\ replaying' = p.replaying
  /\ UNCHANGED <<job, paths, pc, max_width, indent_width, call, returned>>

\* The parser builds the graph and Printer::new takes its start node.
Parse ==
  /\ pc = "parse"
  /\ paths' = Build(job)
  /\ current_node' = IF Build(job)[1] = <<>> THEN NullNode ELSE [path |-> 1, idx |-> 1]
  /\ pc' = "print"
  /\ UNCHANGED <<job, possible_new_line_save_point, new_line_group_depth,
                 force_no_newlines_depth, writer, resolved_conditions, resolved_infos,
                 look_ahead_condition_save_points, look_ahead_info_save_points,
                 next_node_stack, conditions_for_infos, max_width, skip_moving_next,
                 resolving_save_point, stored_info_positions, indent_width, last,
                 first_save_points, replaying, queried, call, returned>>

Printing(kind) ==
  /\ pc = "print"
  /\ IsNode(current_node)
  /\ ItemAt(current_node).kind = kind

HandleString ==
  /\ Printing("String")
  /\ \E p \in {move_next(handle_string(ThePrinter, ItemAt(current_node)))} :
       Becomes(p) /\ UNCHANGED queried

HandleSignal ==
  /\ Printing("Signal")
  /\ \E p \in {move_next(handle_signal(ThePrinter, ItemAt(current_node).signal))} :
       Becomes(p) /\ UNCHANGED queried

HandleInfo ==
  /\ Printing("Info")
  /\ \E order \in IterationOrders(ThePrinter, ItemAt(current_node).id) :
       \E p \in {move_next(handle_info(ThePrinter, ItemAt(current_node), order))} :
         Becomes(p) /\ UNCHANGED queried

HandleCondition ==
  /\ Printing("Condition")
  /\ \E p \in {move_next(handle_condition(ThePrinter, ItemAt(current_node),
                                          get_next(current_node)))} :
       Becomes(p) /\ UNCHANGED queried

HandleRcPath ==
  /\ Printing("RcPath")
  /\ \E p \in {move_next(handle_rc_path(ThePrinter,
                                        PathHead(ItemAt(current_node).true_path),
                                        get_next(current_node)))} :
       Becomes(p) /\ UNCHANGED queried

\* The loop has ended: print() hands out the writer's items.
Finish ==
  /\ pc = "print"
  /\ ~IsNode(current_node)
  /\ pc' = "done"
  /\ last' = NoRewind
  /\ UNCHANGED <<job, paths, possible_new_line_save_point, new_line_group_depth,
                 force_no_newlines_depth, current_node, writer, resolved_conditions,
                 resolved_infos, look_ahead_condition_save_points,
                 look_ahead_info_save_points, next_node_stack, conditions_for_infos,
                 max_width, skip_moving_next, resolving_save_point,
                 stored_info_positions, indent_width, first_save_points, replaying,
                 queried,
                 call, returned>>

Next ==
  \/ Parse
  \/ HandleString
  \/ HandleSignal
  \/ HandleInfo
  \/ HandleCondition
  \/ HandleRcPath
  \/ Finish

Spec == Init /\ [][Next]_vars

\* The jobs that print conditions: the condition jobs and the scenarios.
ConditionInit == Init /\ job \in ConditionJobs \cup ScenarioJobs

\* The loop of inner_print runs on while there is a node to handle.
FairSpec == ConditionInit /\ [][Next]_vars /\ WF_vars(Next)

\* ================================================================ claims
Output == writer.items

Text(t) == WriteItem("Text", t, 0)

NewLine == WriteItem("NewLine", "", 0)

Space == WriteItem("Space", "", 0)

Indent(l) == WriteItem("Indent", "", l)

NewLineCount(items) == Cardinality({i \in 1..Len(items) : items[i].kind = "NewLine"})

\* ------------------------------------------------------ resolver context
\* A resolver's view of the printer: between the handling of Infos, which
\* resolve them to where the writer is, a resolver clears infos and asks
\* whether they have moved.
MaxLine == 1

MaxColumn == 1

InfoIds == {1, 2}

QueryInit ==
  /\ job = S5
  /\ paths = <<>>
  /\ pc = "query"
  /\ possible_new_line_save_point = NoSavePoint
  /\ new_line_group_depth = 0
  /\ force_no_newlines_depth = 0
  /\ current_node = NullNode
  /\ writer = WriterNew
  /\ resolved_conditions = EmptyMap
  /\ resolved_infos = EmptyMap
  /\ look_ahead_condition_save_points = EmptyMap
  /\ look_ahead_info_save_points = EmptyMap
  /\ next_node_stack = <<>>
  /\ conditions_for_infos = EmptyMap
  /\ max_width = job.max_width
  /\ skip_moving_next = FALSE
  /\ resolving_save_point = NoSavePoint
  /\ stored_info_positions = EmptyMap
  /\ indent_width = job.indent_width
  /\ last = NoRewind
  /\ first_save_points = EmptyMap
  /\ replaying = NotReplaying
  /\ queried = EmptyMap
  /\ call = NoCall
  /\ returned = NotReturned

\* The writer at a line and column.
WriterAt(w, line, column) ==
  [w EXCEPT !.current_line_number = line, !.current_line_column = column]

\* An Info is handled with the writer somewhere.
InfoHandled(info_id) ==
  /\ pc = "query"
  /\ \E line \in 0..MaxLine, column \in 0..MaxColumn :
       \E p \in {handle_info([ThePrinter EXCEPT !.writer = WriterAt(@, line, column)],
                             InfoItem(info_id), <<>>)} :
         Becomes(p)
  /\ queried' = EmptyMap

\* A resolver clears an info.
InfoCleared(info_id) ==
  /\ pc = "query"
  /\ info_id \in DOMAIN resolved_infos
  /\ \E p \in {clear_info(ThePrinter, info_id)} : Becomes(p)
  /\ UNCHANGED queried

\* The last two of the values has_info_moved returned for an info.
Returned(info_id, value) ==
  IF info_id \in DOMAIN queried
  THEN <<queried[info_id][Len(queried[info_id])], value>>
  ELSE <<value>>

\* A resolver asks whether an info has moved.
InfoMovedQueried(info_id) ==
  /\ pc = "query"
  /\ \E r \in {has_info_moved(ThePrinter, info_id)} :
       /\ Becomes(r.p)
       /\ queried' = MapInsert(queried, info_id, Returned(info_id, r.value))

QueryNext ==
  \/ \E info_id \in InfoIds : InfoHandled(info_id)
  \/ \E info_id \in InfoIds : InfoCleared(info_id)
  \/ \E info_id \in InfoIds : InfoMovedQueried(info_id)

QuerySpec == QueryInit /\ [][QueryNext]_vars

\* -------------------------------------------------------- configuration
\* Result<T, ErrBox>: Ok(value) or Err(message), a message being the pieces
\* it is formatted from.
Ok(value) == [ok |-> TRUE, value |-> value, message |-> <<>>]

Err(message) == [ok |-> FALSE, value |-> <<>>, message |-> message]

\* ConfigMapValue: a HashMap of key values, or a key value.
ConfigMapValueHashMap(map) == [kind |-> "HashMap", map |-> map, value |-> ""]

ConfigMapValueKeyValue(value) == [kind |-> "KeyValue", map |-> <<>>, value |-> value]

\* Mutant: the plugin's entry is read and left in the map.
get_plugin_config_map_inner_keeping_key(plugin, config_map) ==
  LET config_key == plugin.config_key
  IN  IF config_key \in DOMAIN config_map
      THEN IF config_map[config_key].kind = "HashMap"
           THEN [result |-> Ok(config_map[config_key].map), config_map |-> config_map]
           ELSE [result |-> Err(<<"Expected the configuration property '", config_key,
                                  "' to be an object.">>),
                 config_map |-> config_map]
      ELSE [result |-> Ok(EmptyMap), config_map |-> config_map]

\* Mutant: the plugin's entry is taken out of the map only when it is an
\* object.
get_plugin_config_map_inner_removing_objects(plugin, config_map) ==
  LET config_key == plugin.config_key
  IN  IF config_key \in DOMAIN config_map
      THEN IF config_map[config_key].kind = "HashMap"
           THEN [result |-> Ok(config_map[config_key].map),
                 config_map |-> MapRemove(config_map, config_key)]
           ELSE [result |-> Err(<<"Expected the configuration property '", config_key,
                                  "' to be an object.">>),
                 config_map |-> config_map]
      ELSE [result |-> Ok(EmptyMap), config_map |-> config_map]

\* The result, and the config_map the call leaves behind.
get_plugin_config_map_inner(plugin, config_map) ==
  LET config_key == plugin.config_key
  IN  IF config_key \in DOMAIN config_map
      THEN LET plugin_config_map == config_map[config_key]
               removed == MapRemove(config_map, config_key)
           IN  IF plugin_config_map.kind = "HashMap"
               THEN [result |-> Ok(plugin_config_map.map), config_map |-> removed]
               ELSE [result |-> Err(<<"Expected the configuration property '", config_key,
                                      "' to be an object.">>),
                     config_map |-> removed]
      ELSE [result |-> Ok(EmptyMap), config_map |-> config_map]

\* Mutant: the inner error is handed on as it is.
get_plugin_config_map_plain_error(plugin, config_map) ==
  get_plugin_config_map_inner(plugin, config_map)

get_plugin_config_map(plugin, config_map) ==
  LET inner == get_plugin_config_map_inner(plugin, config_map)
  IN  IF inner.result.ok THEN inner
      ELSE [inner EXCEPT !.result =
              Err(<<"Error initializing from configuration file. ">> \o @.message)]

\* wasm::PLUGIN_SYSTEM_SCHEMA_VERSION
PLUGIN_SYSTEM_SCHEMA_VERSION == 3

\* Option<T>
None == [is_some |-> FALSE]

SomeOf(value) == [is_some |-> TRUE, value |-> value]

\* Vec::contains
Contains(vec, item) == \E i \in 1..Len(vec) : vec[i] = item

\* Gets the unique items in the vector in the same order.
RECURSIVE get_unique_items_from(_, _)
get_unique_items_from(vec, new_vec) ==
  IF vec = <<>> THEN new_vec
  ELSE get_unique_items_from(
         Tail(vec),
         IF Contains(new_vec, vec[1]) THEN new_vec ELSE Append(new_vec, vec[1]))

get_unique_items(vec) == get_unique_items_from(vec, <<>>)

\* [T]::join, the pieces of the joined text.
RECURSIVE join(_, _)
join(vec, separator) ==
  IF vec = <<>> THEN <<>>
  ELSE IF Len(vec) = 1 THEN <<vec[1]>>
  ELSE <<vec[1], separator>> \o join(Tail(vec), separator)

\* [String]::join on formatted texts, each the sequence of its pieces.
RECURSIVE join_texts(_, _)
join_texts(texts, separator) ==
  IF texts = <<>> THEN <<>>
  ELSE IF Len(texts) = 1 THEN texts[1]
  ELSE texts[1] \o <<separator>> \o join_texts(Tail(texts), separator)

\* iter().flat_map(|p| p.<field>.iter())
RECURSIVE flat_map(_, _)
flat_map(plugins, field) ==
  IF plugins = <<>> THEN <<>>
  ELSE plugins[1][field] \o flat_map(Tail(plugins), field)

\* Mutant: an info file of another plugin system version is used all the same.
checked_info_of_any_version(environment) ==
  IF environment.info_file.ok
  THEN [info |-> SomeOf(environment.info_file.value), logged_errors |-> <<>>]
  ELSE [info |-> None,
        logged_errors |->
          << <<"There was a problem getting the latest plugin info. ",
               "The created config file may not be as helpful of a starting point. ",
               "Error: ", environment.info_file.message>> >>]

\* let info = match read_info_file(environment): the info to use, and the
\* errors logged.
checked_info(environment) ==
  IF environment.info_file.ok
  THEN LET info == environment.info_file.value
       IN  IF info.plugin_system_schema_version # PLUGIN_SYSTEM_SCHEMA_VERSION
           THEN [info |-> None,
                 logged_errors |->
                   << <<"You are using an old version of dprint so the created config file may not be as helpful of a starting point. ",
                        "Consider upgrading to support new plugins. ",
                        "Plugin system schema version is ", PLUGIN_SYSTEM_SCHEMA_VERSION,
                        ", latest is ", info.plugin_system_schema_version, ".">> >>]
           ELSE [info |-> SomeOf(info), logged_errors |-> <<>>]
  ELSE [info |-> None,
        logged_errors |->
          << <<"There was a problem getting the latest plugin info. ",
               "The created config file may not be as helpful of a starting point. ",
               "Error: ", environment.info_file.message>> >>]

\* The config keys of the selected plugins, each with its braces.
RECURSIVE config_key_texts(_)
config_key_texts(selected_plugins) ==
  IF selected_plugins = <<>> THEN <<>>
  ELSE (IF /\ selected_plugins[1].config_key.is_some
           /\ selected_plugins[1].config_key.value # ""
        THEN <<"  \"", selected_plugins[1].config_key.value, "\": {\n", "  },\n">>
        ELSE <<>>) \o config_key_texts(Tail(selected_plugins))

\* The urls of the selected plugins, one to a line.
RECURSIVE plugin_url_texts(_, _)
plugin_url_texts(selected_plugins, i) ==
  IF i > Len(selected_plugins) THEN <<>>
  ELSE (IF i > 1 THEN <<",\n">> ELSE <<>>)
         \o (IF selected_plugins[i].is_process_plugin /\ selected_plugins[i].checksum.is_some
             THEN <<"    \"", selected_plugins[i].url, "@",
                    selected_plugins[i].checksum.value, "\"">>
             ELSE <<"    \"", selected_plugins[i].url, "\"">>)
         \o plugin_url_texts(selected_plugins, i + 1)

\* The json text for the selected plugins.
selected_plugins_text(selected_plugins) ==
  LET extension_includes == get_unique_items(flat_map(selected_plugins, "file_extensions"))
      file_name_includes == get_unique_items(flat_map(selected_plugins, "file_names"))
      json_includes ==
        (IF extension_includes # <<>>
         THEN << <<"\"**/*.{">> \o join(extension_includes, ",") \o <<"}\"">> >>
         ELSE <<>>)
        \o (IF file_name_includes # <<>>
            THEN << <<"\"**/{">> \o join(file_name_includes, ",") \o <<"}\"">> >>
            ELSE <<>>)
      excludes == get_unique_items(flat_map(selected_plugins, "config_excludes"))
  IN  config_key_texts(selected_plugins)
        \o <<"  \"includes\": [">>
        \o (IF json_includes = <<>> THEN <<"\"**/*.*\"">>
            ELSE join_texts(json_includes, ","))
        \o <<"],\n", "  \"excludes\": [">>
        \o (IF excludes # <<>>
            THEN <<"\n">>
                   \o join_texts([i \in 1..Len(excludes) |->
                                    <<"    \"", excludes[i], "\"">>], ",\n")
                   \o <<"\n  ">>
            ELSE <<>>)
        \o <<"],\n", "  \"plugins\": [\n">>
        \o (IF selected_plugins = <<>> THEN <<"    // specify plugin urls here\n">>
            ELSE plugin_url_texts(selected_plugins, 1) \o <<"\n">>)
        \o <<"  ]\n}\n">>

\* The json text when no plugin info is at hand.
default_text ==
  <<"  \"includes\": [\"**/*.{ts,tsx,js,jsx,json}\"],\n",
    "  \"excludes\": [\n    \"**/node_modules\",\n    \"**/*-lock.json\"\n  ],\n",
    "  \"plugins\": [\n",
    "    // specify plugin urls here\n",
    "  ]\n}\n">>

\* The result, the errors logged and the prompts shown.
get_init_config_file_text(environment) ==
  LET checked == checked_info(environment)
      prompt_message ==
        "Select plugins (use the spacebar to select/deselect and then press enter when finished):"
  IN  IF checked.info.is_some
      THEN LET latest_plugins == checked.info.value.latest_plugins
               plugin_indexes == environment.multi_selection
           IN  IF ~plugin_indexes.ok
               THEN [result |-> Err(plugin_indexes.message),
                     logged_errors |-> checked.logged_errors,
                     prompts |-> <<prompt_message>>]
               ELSE LET selected_plugins ==
                          [i \in 1..Len(plugin_indexes.value) |->
                             latest_plugins[plugin_indexes.value[i]]]
                    IN  [result |-> Ok(<<"{\n", "  \"incremental\": true,\n">>
                                         \o selected_plugins_text(selected_plugins)),
                         logged_errors |-> checked.logged_errors,
                         prompts |-> <<prompt_message>>]
      ELSE [result |-> Ok(<<"{\n", "  \"incremental\": true,\n">> \o default_text),
            logged_errors |-> checked.logged_errors,
            prompts |-> <<>>]

\* ------------------------------------------------------------ the calls
\* The functions outside the printer, each called once on arguments drawn
\* from small sets, while no printer runs.
printer_vars ==
  <<job, paths, possible_new_line_save_point, new_line_group_depth,
    force_no_newlines_depth, current_node, writer, resolved_conditions,
    resolved_infos, look_ahead_condition_save_points,
    look_ahead_info_save_points, next_node_stack, conditions_for_infos,
    max_width, skip_moving_next, resolving_save_point, stored_info_positions,
    indent_width, last, first_save_points, replaying, queried>>

NoPrinter ==
  /\ job = S5
  /\ paths = <<>>
  /\ possible_new_line_save_point = NoSavePoint
  /\ new_line_group_depth = 0
  /\ force_no_newlines_depth = 0
  /\ current_node = NullNode
  /\ writer = WriterNew
  /\ resolved_conditions = EmptyMap
  /\ resolved_infos = EmptyMap
  /\ look_ahead_condition_save_points = EmptyMap
  /\ look_ahead_info_save_points = EmptyMap
  /\ next_node_stack = <<>>
  /\ conditions_for_infos = EmptyMap
  /\ max_width = job.max_width
  /\ skip_moving_next = FALSE
  /\ resolving_save_point = NoSavePoint
  /\ stored_info_positions = EmptyMap
  /\ indent_width = job.indent_width
  /\ last = NoRewind
  /\ first_save_points = EmptyMap
  /\ replaying = NotReplaying
  /\ queried = EmptyMap

\* Longest text handed to parse_string.
MaxText == 3

Chars == {"a", "\n", "\t", "\r"}

\* The texts to parse. Whether lines() drops a carriage return that ends the
\* text depends on the toolchain; such texts are left out.
Texts == {t \in SeqsUpTo(Chars, MaxText) : ~ends_with(t, "\r")}

ParseStringCalls == {[fn |-> "parse_string", text |-> t] : t \in Texts}

CallParseString ==
  /\ pc = "call"
  /\ call.fn = "parse_string"
  /\ returned' = [fn |-> "parse_string", items |-> parse_string(call.text)]
  /\ pc' = "returned"
  /\ UNCHANGED <<call, printer_vars>>

\* Longest text searched by text_has_dprint_ignore.
MaxSearched == 4

SearchedChars == {"x", "i", "-"}

SearchingTexts == {<<"i">>, <<"i", "i">>}

HasIgnoreCalls ==
  {[fn |-> "text_has_dprint_ignore", text |-> t, searching_text |-> n] :
     t \in SeqsUpTo(SearchedChars, MaxSearched), n \in SearchingTexts}

CallTextHasDprintIgnore ==
  /\ pc = "call"
  /\ call.fn = "text_has_dprint_ignore"
  /\ returned' = [fn |-> "text_has_dprint_ignore",
                  value |-> text_has_dprint_ignore(call.text, call.searching_text)]
  /\ pc' = "returned"
  /\ UNCHANGED <<call, printer_vars>>

\* The keys of a configuration file, the plugins' config keys among them.
ConfigKeys == {"lineWidth", "typescript", "json"}

Plugins == {[name |-> "dprint-plugin-typescript", config_key |-> "typescript"],
            [name |-> "dprint-plugin-json", config_key |-> "json"]}

ConfigMapValues ==
  {ConfigMapValueKeyValue("80"), ConfigMapValueKeyValue(""),
   ConfigMapValueHashMap(EmptyMap),
   ConfigMapValueHashMap(MapInsert(EmptyMap, "lineWidth", "40"))}

ConfigMaps == UNION {[keys -> ConfigMapValues] : keys \in SUBSET ConfigKeys}

PluginConfigCalls ==
  {[fn |-> "get_plugin_config_map", plugin |-> p, config_map |-> m] :
     p \in Plugins, m \in ConfigMaps}

CallGetPluginConfigMap ==
  /\ pc = "call"
  /\ call.fn = "get_plugin_config_map"
  /\ \E r \in {get_plugin_config_map(call.plugin, call.config_map)} :
       returned' = [fn |-> "get_plugin_config_map", result |-> r.result,
                    config_map |-> r.config_map]
  /\ pc' = "returned"
  /\ UNCHANGED <<call, printer_vars>>

\* The plugins of an info file (the tests' get_multi_plugins_config).
LatestPlugins ==
  << [name |-> "dprint-plugin-typescript",
      url |-> "https://plugins.dprint.dev/typescript-0.17.2.wasm",
      config_key |-> SomeOf("typescript"), file_extensions |-> <<"ts", "tsx">>,
      file_names |-> <<>>, config_excludes |-> <<"**/something">>,
      checksum |-> None, is_process_plugin |-> FALSE],
     [name |-> "dprint-plugin-jsonc",
      url |-> "https://plugins.dprint.dev/json-0.2.3.wasm",
      config_key |-> SomeOf("json"), file_extensions |-> <<"json">>,
      file_names |-> <<>>, config_excludes |-> <<"**/*-asdf.json">>,
      checksum |-> None, is_process_plugin |-> FALSE],
     [name |-> "dprint-plugin-final",
      url |-> "https://plugins.dprint.dev/final-0.1.2.wasm",
      config_key |-> None, file_extensions |-> <<"tsx", "rs">>,
      file_names |-> <<"Cargo.toml">>, config_excludes |-> <<"**/something", "**other">>,
      checksum |-> None, is_process_plugin |-> FALSE],
     [name |-> "dprint-process-plugin",
      url |-> "https://plugins.dprint.dev/process-0.1.0.exe-plugin",
      config_key |-> None, file_extensions |-> <<"ps">>,
      file_names |-> <<>>, config_excludes |-> <<>>,
      checksum |-> SomeOf("test-checksum"), is_process_plugin |-> TRUE] >>

\* Most plugins selected at the prompt.
MaxSelected == 2

\* The plugin system versions an info file may state: the supported one and
\* another.
SchemaVersions == {PLUGIN_SYSTEM_SCHEMA_VERSION, PLUGIN_SYSTEM_SCHEMA_VERSION + 6}

InfoFiles ==
  {Err("Could not find file at url https://plugins.dprint.dev/info.json")}
  \cup {Ok([plugin_system_schema_version |-> v,
            latest_plugins |-> SubSeq(LatestPlugins, 1, n)]) :
          v \in SchemaVersions, n \in {0, 2, Len(LatestPlugins)}}

\* The ascending sequences of up to MaxSelected of the indexes 1..n.
Selections(n) ==
  {sel \in SeqsUpTo(1..n, MaxSelected) :
     \A i \in 1..(Len(sel) - 1) : sel[i] < sel[i + 1]}

\* What the environment answers: the info file, and the plugins selected at
\* the prompt out of those shown.
Environments ==
  UNION {{[info_file |-> f, multi_selection |-> Err("Cancelled")]}
         \cup {[info_file |-> f, multi_selection |-> Ok(sel)] :
                sel \in Selections(IF f.ok THEN Len(f.value.latest_plugins) ELSE 0)} :
         f \in InfoFiles}

InitConfigCalls == {[fn |-> "get_init_config_file_text", environment |-> e] : e \in Environments}

CallGetInitConfigFileText ==
  /\ pc = "call"
  /\ call.fn = "get_init_config_file_text"
  /\ \E r \in {get_init_config_file_text(call.environment)} :
       returned' = [fn |-> "get_init_config_file_text", result |-> r.result,
                    logged_errors |-> r.logged_errors, prompts |-> r.prompts]
  /\ pc' = "returned"
  /\ UNCHANGED <<call, printer_vars>>

\* ----------------------------------------------------------- counter_cell
\* The width the model gives usize.
UsizeBits == 8

UsizeMax == 2 ^ UsizeBits - 1

\* Most calls of increment on one cell.
MaxCalls == 3

\* Mutant: the incremented count is returned and not stored.
increment_without_store(cell) ==
  IF cell.counter = UsizeMax
  THEN {[cell |-> cell, value |-> 0, panicked |-> FALSE],
        [cell |-> cell, value |-> 0, panicked |-> TRUE]}
  ELSE {[cell |-> cell, value |-> cell.counter + 1, panicked |-> FALSE]}

\* CounterCell::increment: adds one to the count and returns the new count.
\* At the largest usize the addition overflows: the build with overflow
\* checks panics and leaves the count, the build without wraps to 0.
increment(cell) ==
  IF cell.counter = UsizeMax
  THEN {[cell |-> [counter |-> 0], value |-> 0, panicked |-> FALSE],
        [cell |-> cell, value |-> 0, panicked |-> TRUE]}
  ELSE {[cell |-> [counter |-> cell.counter + 1], value |-> cell.counter + 1,
         panicked |-> FALSE]}

\* A cell as CounterCell::new makes it, and one that has been incremented
\* up to the last count but one.
IncrementCalls ==
  {[fn |-> "increment", cell |-> [counter |-> c]] : c \in {0, UsizeMax - 1}}

\* One more call of increment on the cell, up to MaxCalls calls.
CallIncrement ==
  /\ call.fn = "increment"
  /\ \/ pc = "call"
     \/ /\ pc = "returned"
        /\ ~returned.panicked
        /\ Len(returned.values) < MaxCalls
  /\ LET cell == IF pc = "call" THEN call.cell ELSE returned.cell
         values == IF pc = "call" THEN <<>> ELSE returned.values
     IN  \E r \in increment(cell) :
           returned' = [fn |-> "increment", cell |-> r.cell,
                        values |-> IF r.panicked THEN values
                                   ELSE Append(values, r.value),
                        panicked |-> r.panicked]
  /\ pc' = "returned"
  /\ UNCHANGED <<call, printer_vars>>

CallInit ==
  /\ NoPrinter
  /\ pc = "call"
  /\ returned = NotReturned
  /\ \/ call \in ParseStringCalls
     \/ call \in HasIgnoreCalls
     \/ call \in PluginConfigCalls
     \/ call \in InitConfigCalls
     \/ call \in IncrementCalls

CallNext ==
  \/ CallParseString
  \/ CallTextHasDprintIgnore
  \/ CallGetPluginConfigMap
  \/ CallGetInitConfigFileText
  \/ CallIncrement

CallSpec == CallInit /\ [][CallNext]_vars

\* ------------------------------------------------------------------- C1
\* A step emits a NewLine inside a force-no-newlines region: it adds a
\* NewLine to the output while force_no_newlines_depth > 0, or it rewinds
\* for a new line to a save-point taken inside such a region.
NewLineInRegion ==
  \/ /\ ~last'.rewind
     /\ force_no_newlines_depth > 0
     /\ NewLineCount(writer'.items) > NewLineCount(writer.items)
  \/ /\ last'.rewind
     /\ last'.is_for_new_line
     /\ last'.save_point.force_no_newlines_depth > 0

\* C1 as claimed: no NewLine write-item is ever emitted while
\* force_no_newlines_depth > 0, whatever signals occur inside the region,
\* and no rewind places a newline inside a region.
C1_NoNewLineInRegion == [][~NewLineInRegion]_vars

\* C1 amended: the only NewLine emitted while force_no_newlines_depth > 0 is
\* the one the writer owes to an ExpectNewLine (expect_newline_next is set
\* and the next write inserts it); NewLine, SpaceOrNewLine, PossibleNewLine
\* and overflowing Strings emit none, and no rewind places one in a region.
C1_OnlyExpectedNewLineInRegion ==
  [][NewLineInRegion => (~last'.rewind /\ writer.expect_newline_next)]_vars

\* Inside a region the line has grown past max_width with a save-point
\* live, and no newline was emitted.
C1_Witness ==
  /\ pc = "print"
  /\ force_no_newlines_depth > 0
  /\ IsSome(possible_new_line_save_point)
  /\ writer.current_line_column > max_width
  /\ ~writer.expect_newline_next
  /\ NewLineCount(writer.items) = 0

\* ------------------------------------------------------------------- C2
\* The length of the current line once it is finished: new_line() drops a
\* trailing space.
FinishedLineLength ==
  IF writer.last_was_not_trailing_space THEN writer.current_line_column - 1
  ELSE writer.current_line_column

\* The step ends the current line where it stands (no rewind).
LineFinishedInPlace ==
  /\ pc = "print"
  /\ ~last'.rewind
  /\ writer'.current_line_number > writer.current_line_number

\* A possible-new-line save-point taken on the current line at a lower
\* new-line-group depth than the current one is live.
ShallowerSavePointOnLine ==
  /\ IsSome(possible_new_line_save_point)
  /\ possible_new_line_save_point.writer_state.current_line_number
       = writer.current_line_number
  /\ possible_new_line_save_point.new_line_group_depth < new_line_group_depth

\* C2 as claimed: a finished output line longer than max_width never had a
\* possible-new-line save-point on it that would have broken it at a lower
\* new-line-group depth.
C2_EveryOverflowForced ==
  [][(LineFinishedInPlace /\ FinishedLineLength > max_width)
       => ~ShallowerSavePointOnLine]_vars

\* C2 amended: an overflow made by a String handled while new lines are
\* allowed is forced: when handle_string finds that the writer's column
\* plus the text's length exceeds max_width with force_no_newlines_depth = 0
\* and writes the text all the same, no possible-new-line save-point was
\* live, at any depth, and none is live afterwards.
C2_StringOverflowForced ==
  [][(/\ Printing("String")
      /\ force_no_newlines_depth = 0
      /\ get_line_column(writer) + ItemAt(current_node).char_count > max_width
      /\ ~last'.rewind)
       => (/\ ~IsSome(possible_new_line_save_point)
           /\ ~IsSome(possible_new_line_save_point'))]_vars

\* A String has overflowed with new lines allowed: it is the last item of
\* an overlong line, outside any region, after an earlier line break.
C2_Witness ==
  /\ pc = "print"
  /\ force_no_newlines_depth = 0
  /\ writer.current_line_column > max_width
  /\ Len(writer.items) > 0
  /\ writer.items[Len(writer.items)].kind = "Text"
  /\ writer.current_line_number > 0
  /\ ~IsSome(possible_new_line_save_point)

\* ------------------------------------------------------------------- C4
\* C4 as claimed: for every well-formed graph the print loop ends after
\* finitely many handled nodes, rewinds included, and output is produced.
C4_PrintTerminates == <>(pc = "done")

\* ------------------------------------------------------------------- C5
\* Words separated by SpaceOrNewLine in one StartNewLineGroup /
\* FinishNewLineGroup: the group's first SpaceOrNewLine is item 3 and the
\* node after it is item 4.
GroupedWords == job.family \in {"words", "S3"} /\ paths # <<>> /\ paths[1][1] = Sig("StartNewLineGroup")

RewoundForNewLine == pc = "print" /\ last.rewind /\ last.is_for_new_line

AfterFirstSpaceOfGroup == [path |-> 1, idx |-> 4]

\* C5 as claimed: in a single group an overflowing String rewinds to the
\* first SpaceOrNewLine of the group, not to the most recent one, and S3
\* prints as foooo, newline, bar baz.
C5_RewindsToFirstOfGroup ==
  /\ (GroupedWords /\ RewoundForNewLine) => last.save_point.node = AfterFirstSpaceOfGroup
  /\ (pc = "done" /\ job = S3)
       => Output = <<Text("foooo"), NewLine, Text("bar"), Space, Text("baz")>>

\* C5 amended: in a single group every SpaceOrNewLine is at the depth of the
\* save-point of the one before it and replaces it, so an overflowing String
\* rewinds to the most recent SpaceOrNewLine, as it does without the group,
\* and S3 prints as foooo bar, newline, baz.
C5_RewindsToMostRecentOfGroup ==
  /\ (GroupedWords /\ RewoundForNewLine)
       => /\ last.save_point.node = last.from
          /\ ItemAt([path |-> 1, idx |-> last.from.idx - 1]) = Sig("SpaceOrNewLine")
          /\ last.save_point.new_line_group_depth = new_line_group_depth
          /\ Output = Append(last.save_point.writer_state.items, NewLine)
  /\ (pc = "done" /\ job = S3)
       => Output = <<Text("foooo"), Space, Text("bar"), NewLine, Text("baz")>>

\* The third word of a group overflowed and the rewind went to the second
\* SpaceOrNewLine, the save-point of the first having been replaced.
C5_Witness ==
  /\ GroupedWords
  /\ RewoundForNewLine
  /\ last.from = [path |-> 1, idx |-> 6]
  /\ last.save_point.node = [path |-> 1, idx |-> 6]
  /\ last.save_point.possible_new_line_save_point.node = AfterFirstSpaceOfGroup

\* ------------------------------------------------------------------- C6
\* Words separated by SpaceOrNewLine outside any group and region.
PlainWords == job.family \in {"words", "S1", "S2"} /\ job.wrap = "none" /\ paths # <<>>

RECURSIVE SumOfCharCounts(_)
SumOfCharCounts(items) ==
  IF items = <<>> THEN 0 ELSE items[1].char_count + SumOfCharCounts(Tail(items))

\* The width of the items on one line: the texts, and one space for each
\* SpaceOrNewLine.
OneLineWidth(items) ==
  SumOfCharCounts(items)
    + Cardinality({i \in 1..Len(items) : items[i] = Sig("SpaceOrNewLine")})

\* The items on one line: each String as its text, each SpaceOrNewLine as
\* one space.
OnOneLine(items) ==
  [i \in 1..Len(items) |->
     IF items[i].kind = "String" THEN Text(items[i].text) ELSE Space]

\* Filling lines greedily: a word goes on the current line if it fits after
\* one space, otherwise on a new line.
RECURSIVE GreedyFill(_, _, _)
GreedyFill(items, i, column) ==
  IF i > Len(items) THEN <<>>
  ELSE IF i = 1 THEN <<Text(items[1].text)>> \o GreedyFill(items, 2, items[1].char_count)
  ELSE IF column + 1 + items[i + 1].char_count > max_width
  THEN <<NewLine, Text(items[i + 1].text)>>
         \o GreedyFill(items, i + 2, items[i + 1].char_count)
  ELSE <<Space, Text(items[i + 1].text)>>
         \o GreedyFill(items, i + 2, column + 1 + items[i + 1].char_count)

\* C6: Strings separated by SpaceOrNewLine outside any group and region: a
\* sequence that fits in max_width comes out on one line with one space per
\* SpaceOrNewLine; a String that would overflow breaks the line at the most
\* recent SpaceOrNewLine before it and nowhere earlier, so the lines are
\* filled greedily. S1 prints as foo bar, S2 as foooo bar, newline, baz.
C6_PlainWordsFillLines ==
  /\ (PlainWords /\ pc = "done" /\ OneLineWidth(paths[1]) <= max_width)
       => Output = OnOneLine(paths[1])
  /\ (PlainWords /\ RewoundForNewLine)
       => /\ last.save_point.node = last.from
          /\ ItemAt([path |-> 1, idx |-> last.from.idx - 1]) = Sig("SpaceOrNewLine")
          /\ Output = Append(last.save_point.writer_state.items, NewLine)
  /\ (PlainWords /\ pc = "done") => Output = GreedyFill(paths[1], 1, 0)
  /\ (pc = "done" /\ job = S1) => Output = <<Text("foo"), Space, Text("bar")>>
  /\ (pc = "done" /\ job = S2)
       => Output = <<Text("foooo"), Space, Text("bar"), NewLine, Text("baz")>>

\* S2 has been printed, with its rewind to the second SpaceOrNewLine.
C6_Witness ==
  /\ job = S2
  /\ pc = "done"
  /\ NewLineCount(Output) = 1

\* ------------------------------------------------------------------- C7
\* A job that prints surround_with_newlines_indented_if_multi_line(inner)
\* alone, inner being Strings and NewLine signals.
TextAndNewLines(items) ==
  \A i \in 1..Len(items) : items[i].kind = "String" \/ items[i] = Sig("NewLine")

SurroundJob ==
  /\ job.family \in {"multi_line", "S5", "S5OneLine"}
  /\ job.prefix = <<>>
  /\ job.wrap = "none"
  /\ job.body # <<>>
  /\ TextAndNewLines(job.body)

\* The items printed at an indent level: a String is its text, after the
\* indent when it starts a line; a NewLine signal is a newline.
RECURSIVE Indented(_, _, _)
Indented(items, level, at_line_start) ==
  IF items = <<>> THEN <<>>
  ELSE IF items[1].kind = "String"
  THEN (IF at_line_start /\ level > 0 THEN <<Indent(level)>> ELSE <<>>)
         \o <<Text(items[1].text)>> \o Indented(Tail(items), level, FALSE)
  ELSE <<NewLine>> \o Indented(Tail(items), level, TRUE)

HasNewLine(items) == \E i \in 1..Len(items) : items[i] = Sig("NewLine")

NewlineIfMultiLine == 2

\* C7: surround_with_newlines_indented_if_multi_line(inner, indent_width):
\* when inner ends on a later line than it starts the condition finally
\* resolves true and the output is newline, inner indented one level,
\* newline; when inner stays on one line the condition resolves false and
\* inner is printed bare. Nothing of the first pass through the false arm
\* is left in the output. S5 prints as newline, x and y indented on two
\* lines, newline; inner [x] prints as x.
C7_SurroundIfMultiLine ==
  /\ (SurroundJob /\ pc = "done" /\ HasNewLine(job.body))
       => /\ resolved_conditions[NewlineIfMultiLine] = "true"
          /\ Output = <<NewLine>> \o Indented(job.body, 1, TRUE) \o <<NewLine>>
  /\ (SurroundJob /\ pc = "done" /\ ~HasNewLine(job.body))
       => /\ resolved_conditions[NewlineIfMultiLine] = "false"
          /\ Output = Indented(job.body, 0, TRUE)
  /\ (job = S5 /\ pc = "done")
       => Output = <<NewLine, Indent(1), Text("x"), NewLine, Indent(1), Text("y"), NewLine>>
  /\ (job = S5OneLine /\ pc = "done") => Output = <<Text("x")>>

\* S5 went through the false arm, was rewound to the condition and has
\* printed the true arm.
C7_Witness ==
  /\ job = S5
  /\ pc = "done"
  /\ resolved_conditions[NewlineIfMultiLine] = "true"
  /\ Len(Output) = 7

\* ------------------------------------------------------------------- C8
\* The signals of a set among the items of a chain before a node: what the
\* chain has started, or finished, before the node.
SignalsBefore(node, signals) ==
  IF ~IsNode(node) THEN 0
  ELSE Cardinality({i \in 1..(node.idx - 1) :
                      /\ paths[node.path][i].kind = "Signal"
                      /\ paths[node.path][i].signal \in signals})

RECURSIVE SignalsBeforeAll(_, _)
SignalsBeforeAll(nodes, signals) ==
  IF nodes = <<>> THEN 0
  ELSE SignalsBefore(nodes[1], signals) + SignalsBeforeAll(Tail(nodes), signals)

\* The live path: the chain of the current node and the chains the
\* next-node stack returns to.
LivePath == Append(next_node_stack, current_node)

\* The Start signals of the live path not yet closed by their Finish signal.
Unclosed(starts, finishes) ==
  SignalsBeforeAll(LivePath, starts) - SignalsBeforeAll(LivePath, finishes)

RECURSIVE ChainBalance(_, _, _)
ChainBalance(chain, starts, finishes) ==
  IF chain = <<>> THEN 0
  ELSE (IF chain[1].kind = "Signal" /\ chain[1].signal \in starts THEN 1
        ELSE IF chain[1].kind = "Signal" /\ chain[1].signal \in finishes THEN -1
        ELSE 0) + ChainBalance(Tail(chain), starts, finishes)

\* Every chain of the graph closes what it starts.
EveryPathBalanced ==
  \A i \in 1..Len(paths) :
    /\ ChainBalance(paths[i], {"StartIndent", "QueueStartIndent"}, {"FinishIndent"}) = 0
    /\ ChainBalance(paths[i], {"StartNewLineGroup"}, {"FinishNewLineGroup"}) = 0
    /\ ChainBalance(paths[i], {"StartForceNoNewLines"}, {"FinishForceNoNewLines"}) = 0
    /\ ChainBalance(paths[i], {"StartIgnoringIndent"}, {"FinishIgnoringIndent"}) = 0

DepthsMatchLivePath ==
  /\ new_line_group_depth = Unclosed({"StartNewLineGroup"}, {"FinishNewLineGroup"})
  /\ force_no_newlines_depth = Unclosed({"StartForceNoNewLines"}, {"FinishForceNoNewLines"})
  /\ writer.ignore_indent_count = Unclosed({"StartIgnoringIndent"}, {"FinishIgnoringIndent"})

CountsNonNegative ==
  /\ new_line_group_depth >= 0
  /\ force_no_newlines_depth >= 0
  /\ writer.indent_level >= 0
  /\ writer.indent_queue_count >= 0
  /\ writer.ignore_indent_count >= 0

CountsZeroAtEnd ==
  pc = "done"
    => /\ new_line_group_depth = 0
       /\ force_no_newlines_depth = 0
       /\ writer.indent_level = 0
       /\ writer.ignore_indent_count = 0

\* C8 as claimed: on balanced input, between two handled instructions the
\* two depths, the writer's indentation level and its ignore-indent count are
\* non-negative and equal the number of unclosed Start signals on the live
\* path; all four are zero when the loop ends.
C8_CountersMatchUnclosedStarts ==
  EveryPathBalanced
    => /\ CountsNonNegative
       /\ DepthsMatchLivePath
       /\ writer.indent_level = Unclosed({"StartIndent", "QueueStartIndent"}, {"FinishIndent"})
       /\ CountsZeroAtEnd

\* C8 amended: as claimed, but an indent started by QueueStartIndent is held
\* in the writer's queue until the next newline, so it is the indentation
\* level plus the queued count that equals the number of unclosed StartIndent
\* and QueueStartIndent signals.
C8_CountersMatchWithQueuedIndent ==
  EveryPathBalanced
    => /\ CountsNonNegative
       /\ DepthsMatchLivePath
       /\ writer.indent_level + writer.indent_queue_count
            = Unclosed({"StartIndent", "QueueStartIndent"}, {"FinishIndent"})
       /\ CountsZeroAtEnd

\* A String inside a group overflowed and the rewind went back to a
\* save-point made before the group started.
C8_Witness ==
  /\ pc = "print"
  /\ last.rewind
  /\ last.from.path = 1
  /\ \E i \in 1..Len(paths[1]) :
       /\ paths[1][i] = Sig("StartNewLineGroup")
       /\ last.save_point.node.idx <= i
       /\ i < last.from.idx
  /\ new_line_group_depth = 0

\* ------------------------------------------------------------------- C9
\* What the latest query of an info returned.
LatestReturned(info_id) == queried[info_id][Len(queried[info_id])]

\* C9: has_info_moved(info) compares the info's latest resolved line and
\* column with the position the previous query stored: different, it stores
\* the new position and returns true; the same, it returns false; none
\* stored, it stores the position and returns false. So of two consecutive
\* queries of an info with no Info handled in between, at most one returns
\* true.
C9_HasInfoMoved ==
  [][\A info_id \in InfoIds :
       (InfoMovedQueried(info_id) /\ info_id \in DOMAIN resolved_infos)
         => LET position == <<resolved_infos[info_id].line_number,
                              resolved_infos[info_id].column_number>>
                is_stored == info_id \in DOMAIN stored_info_positions
                value == queried'[info_id][Len(queried'[info_id])]
            IN  /\ (is_stored /\ position # stored_info_positions[info_id])
                     => /\ value = "true"
                        /\ stored_info_positions'
                             = [stored_info_positions EXCEPT ![info_id] = position]
                /\ (is_stored /\ position = stored_info_positions[info_id])
                     => /\ value = "false"
                        /\ UNCHANGED stored_info_positions
                /\ ~is_stored
                     => /\ value = "false"
                        /\ info_id \in DOMAIN stored_info_positions'
                        /\ stored_info_positions'[info_id] = position
                        /\ \A other \in DOMAIN stored_info_positions :
                             stored_info_positions'[other] = stored_info_positions[other]
                /\ (info_id \in DOMAIN queried /\ LatestReturned(info_id) = "true")
                     => value # "true"
    ]_vars

\* An info was queried twice with no Info handled in between: the first
\* query returned true, the second false.
C9_Witness ==
  /\ pc = "query"
  /\ 1 \in DOMAIN queried
  /\ queried[1] = <<"true", "false">>

\* ------------------------------------------------------------------ C10
\* The start and finish signals of each wrapping helper.
HelperSignals ==
  [with_indent |-> <<"StartIndent", "FinishIndent">>,
   with_indent_times |-> <<"StartIndent", "FinishIndent">>,
   with_queued_indent |-> <<"QueueStartIndent", "FinishIndent">>,
   with_no_new_lines |-> <<"StartForceNoNewLines", "FinishForceNoNewLines">>,
   new_line_group |-> <<"StartNewLineGroup", "FinishNewLineGroup">>,
   surround_with_new_lines |-> <<"NewLine", "NewLine">>]

\* The job wraps its body with one helper: the start path is the prefix,
\* what the helper returned, and the suffix.
HelperJob ==
  /\ job.family = "segments"
  /\ pc # "parse"
  /\ job.wrap \in DOMAIN HelperSignals

HelperReturned ==
  SubSeq(paths[1], Len(job.prefix) + 1, Len(paths[1]) - Len(job.suffix))

TimesOf(j) == IF j.wrap = "with_indent_times" THEN j.times ELSE 1

\* C10: a wrapping helper returns an empty argument unchanged; otherwise it
\* returns the argument's items in their order, preceded by its start signal
\* and followed by its finish signal, n of each for with_indent_times(n) and
\* one of each for the others, so what it returns is as balanced as its
\* argument.
C10_HelpersWrap ==
  HelperJob
    => LET n == TimesOf(job)
           start == Sig(HelperSignals[job.wrap][1])
           finish == Sig(HelperSignals[job.wrap][2])
           items == HelperReturned
       IN  /\ job.body = <<>> => items = <<>>
           /\ job.body # <<>>
                => /\ Len(items) = Len(job.body) + 2 * n
                   /\ \A i \in 1..n : items[i] = start
                   /\ \A i \in 1..Len(job.body) : items[n + i] = job.body[i]
                   /\ \A i \in 1..n : items[n + Len(job.body) + i] = finish
           /\ ChainBalance(items, {"StartIndent", "QueueStartIndent"}, {"FinishIndent"})
                = ChainBalance(job.body, {"StartIndent", "QueueStartIndent"}, {"FinishIndent"})
           /\ ChainBalance(items, {"StartNewLineGroup"}, {"FinishNewLineGroup"})
                = ChainBalance(job.body, {"StartNewLineGroup"}, {"FinishNewLineGroup"})
           /\ ChainBalance(items, {"StartForceNoNewLines"}, {"FinishForceNoNewLines"})
                = ChainBalance(job.body, {"StartForceNoNewLines"}, {"FinishForceNoNewLines"})

\* with_indent_times(items, 2) has wrapped two items.
C10_Witness ==
  /\ HelperJob
  /\ job.wrap = "with_indent_times"
  /\ job.times = 2
  /\ Len(job.body) = 2
  /\ Len(paths[1]) = 6

\* ------------------------------------------------------------------ C11
CountChar(text, c) == Cardinality({i \in 1..Len(text) : text[i] = c})

CountSignal(items, signal) ==
  Cardinality({i \in 1..Len(items) :
                 items[i].kind = "Signal" /\ items[i].signal = signal})

\* The text the items stand for: a String is its text, a NewLine signal a
\* newline, a Tab signal a tab.
RECURSIVE Unparse(_)
Unparse(items) ==
  IF items = <<>> THEN <<>>
  ELSE (IF items[1].kind = "String" THEN items[1].text
        ELSE IF items[1].signal = "NewLine" THEN <<"\n">>
        ELSE IF items[1].signal = "Tab" THEN <<"\t">>
        ELSE <<>>) \o Unparse(Tail(items))

ParseStringReturned == pc = "returned" /\ returned.fn = "parse_string"

\* C11: for a text without carriage returns parse_string yields items in
\* which no String holds a newline or a tab, with one NewLine signal for each
\* newline of the text and one Tab signal for each tab, and writing a newline
\* for each NewLine and a tab for each Tab between the Strings gives back the
\* text.
C11_ParseStringRoundTrip ==
  (ParseStringReturned /\ CountChar(call.text, "\r") = 0)
    => /\ \A i \in 1..Len(returned.items) :
            returned.items[i].kind = "String"
              => /\ CountChar(returned.items[i].text, "\n") = 0
                 /\ CountChar(returned.items[i].text, "\t") = 0
       /\ \A i \in 1..Len(returned.items) :
            \/ returned.items[i].kind = "String"
            \/ /\ returned.items[i].kind = "Signal"
               /\ returned.items[i].signal \in {"NewLine", "Tab"}
       /\ CountSignal(returned.items, "NewLine") = CountChar(call.text, "\n")
       /\ CountSignal(returned.items, "Tab") = CountChar(call.text, "\t")
       /\ Unparse(returned.items) = call.text

\* A text of a character, a tab and a newline has been parsed to three
\* items.
C11_Witness ==
  /\ ParseStringReturned
  /\ call.text = <<"a", "\t", "\n">>
  /\ Len(returned.items) = 3

\* ------------------------------------------------------------------ C12
\* The needle occurs at a place of the text with no alphanumeric character
\* right before it or right after it.
OccursAtBoundaries(text, needle, p) ==
  /\ p + Len(needle) - 1 <= Len(text)
  /\ SubSeq(text, p, p + Len(needle) - 1) = needle
  /\ p = 1 \/ ~is_alphanumeric(text[p - 1])
  /\ p + Len(needle) > Len(text) \/ ~is_alphanumeric(text[p + Len(needle)])

\* C12: text_has_dprint_ignore(text, needle) is true exactly when some
\* occurrence of needle in text has no alphanumeric character right before it
\* and none right after it, the start and the end of the text counting as
\* boundaries.
C12_TrueIffSomeOccurrenceAtBoundaries ==
  (pc = "returned" /\ returned.fn = "text_has_dprint_ignore")
    => (returned.value
          <=> \E p \in 1..Len(call.text) :
                OccursAtBoundaries(call.text, call.searching_text, p))

\* ------------------------------------------------------------------ C13
PluginConfigReturned == pc = "returned" /\ returned.fn = "get_plugin_config_map"

ConfigKey == call.plugin.config_key

\* C13: when config_map holds an object under the plugin's config key,
\* get_plugin_config_map returns that object and removes the key, leaving
\* every other key and value as it was; when the key is absent it returns an
\* empty map and leaves config_map as it was.
C13_TakesThePluginsObject ==
  /\ (/\ PluginConfigReturned
      /\ ConfigKey \in DOMAIN call.config_map
      /\ call.config_map[ConfigKey].kind = "HashMap")
       => /\ returned.result.ok
          /\ returned.result.value = call.config_map[ConfigKey].map
          /\ DOMAIN returned.config_map = DOMAIN call.config_map \ {ConfigKey}
          /\ \A key \in DOMAIN returned.config_map :
               returned.config_map[key] = call.config_map[key]
  /\ (PluginConfigReturned /\ ConfigKey \notin DOMAIN call.config_map)
       => /\ returned.result.ok
          /\ DOMAIN returned.result.value = {}
          /\ DOMAIN returned.config_map = DOMAIN call.config_map
          /\ \A key \in DOMAIN returned.config_map :
               returned.config_map[key] = call.config_map[key]

\* The typescript plugin's object was taken out of a map that also holds
\* lineWidth.
C13_Witness ==
  /\ PluginConfigReturned
  /\ ConfigKey = "typescript"
  /\ DOMAIN call.config_map = {"lineWidth", "typescript"}
  /\ DOMAIN returned.result.value = {"lineWidth"}
  /\ DOMAIN returned.config_map = {"lineWidth"}

\* ------------------------------------------------------------------ C14
\* C14: get_plugin_config_map returns the error 'Error initializing from
\* configuration file. Expected the configuration property '<key>' to be an
\* object.' whenever the value under the plugin's config key is not an
\* object, and Ok in every other case.
C14_ErrorIffNotAnObject ==
  PluginConfigReturned
    => /\ ~returned.result.ok
            <=> /\ ConfigKey \in DOMAIN call.config_map
                /\ call.config_map[ConfigKey].kind # "HashMap"
       /\ ~returned.result.ok
            => returned.result.message
                 = <<"Error initializing from configuration file. ",
                     "Expected the configuration property '", ConfigKey,
                     "' to be an object.">>

\* The typescript key held a string and the call returned the error.
C14_Witness ==
  /\ PluginConfigReturned
  /\ ConfigKey = "typescript"
  /\ "typescript" \in DOMAIN call.config_map
  /\ call.config_map["typescript"] = ConfigMapValueKeyValue("")
  /\ ~returned.result.ok

\* ------------------------------------------------------------------ C15
InitConfigReturned == pc = "returned" /\ returned.fn = "get_init_config_file_text"

\* The info file was read and states the supported plugin system version.
InfoAvailable ==
  /\ call.environment.info_file.ok
  /\ call.environment.info_file.value.plugin_system_schema_version = 3

\* C15: when the info file cannot be read, or states another plugin system
\* version than the supported one, get_init_config_file_text logs one error,
\* shows no prompt and returns Ok with the default text (includes
\* **/*.{ts,tsx,js,jsx,json}, excludes **/node_modules and **/*-lock.json, no
\* plugin); the prompt is shown only when the info was read with the
\* supported version.
C15_DefaultTextWithoutInfo ==
  /\ (InitConfigReturned /\ ~InfoAvailable)
       => /\ Len(returned.logged_errors) = 1
          /\ returned.prompts = <<>>
          /\ returned.result.ok
          /\ returned.result.value
               = <<"{\n", "  \"incremental\": true,\n",
                   "  \"includes\": [\"**/*.{ts,tsx,js,jsx,json}\"],\n",
                   "  \"excludes\": [\n    \"**/node_modules\",\n    \"**/*-lock.json\"\n  ],\n",
                   "  \"plugins\": [\n", "    // specify plugin urls here\n", "  ]\n}\n">>
  /\ (InitConfigReturned /\ returned.prompts # <<>>) => InfoAvailable

\* The info file states another plugin system version, a plugin would have
\* been selected, and the call has returned.
C15_Witness ==
  /\ InitConfigReturned
  /\ call.environment.info_file.ok
  /\ call.environment.info_file.value.plugin_system_schema_version # 3
  /\ call.environment.multi_selection.ok
  /\ call.environment.multi_selection.value = <<1>>
  /\ Len(returned.logged_errors) = 1

\* ------------------------------------------------------------------ C17
\* The next step handles a SpaceOrNewLine, new lines are allowed and one
\* more column is beyond max_width.
SpaceOrNewLineOverflows ==
  /\ Printing("Signal")
  /\ ItemAt(current_node).signal = "SpaceOrNewLine"
  /\ force_no_newlines_depth = 0
  /\ get_line_column(writer) + 1 > max_width

SpaceCount(items) == Cardinality({i \in 1..Len(items) : items[i].kind = "Space"})

\* The step rewinds to the live save-point and writes the newline there.
RewindsToSavePoint ==
  /\ last'.rewind
  /\ last'.is_for_new_line
  /\ last'.save_point = possible_new_line_save_point
  /\ writer' = writer_new_line(possible_new_line_save_point.writer_state)
  /\ current_node' = possible_new_line_save_point.node
  /\ SpaceCount(writer'.items) <= SpaceCount(possible_new_line_save_point.writer_state.items)
  /\ ~IsSome(possible_new_line_save_point')

\* The step writes the newline where the writer is.
NewLineAtCurrentPosition ==
  /\ ~last'.rewind
  /\ writer' = writer_new_line(writer)
  /\ SpaceCount(writer'.items) <= SpaceCount(writer.items)
  /\ ~IsSome(possible_new_line_save_point')

\* C17 as claimed: an overflowing SpaceOrNewLine rewinds to the live
\* save-point when its depth is at or below the current new-line-group depth,
\* and otherwise writes the newline at the current position; either way no
\* space is written and no save-point is live afterwards.
C17_RewindsAtOrBelowDepth ==
  [][SpaceOrNewLineOverflows
       => IF /\ IsSome(possible_new_line_save_point)
             /\ possible_new_line_save_point.new_line_group_depth <= new_line_group_depth
          THEN RewindsToSavePoint
          ELSE NewLineAtCurrentPosition]_vars

\* C17 amended: an overflowing SpaceOrNewLine rewinds to the live save-point
\* only when its depth is below the current new-line-group depth; with no
\* save-point, or one of the current depth or deeper, it writes the newline
\* at the current position; either way no space is written and no save-point
\* is live afterwards.
C17_RewindsBelowDepth ==
  [][SpaceOrNewLineOverflows
       => IF /\ IsSome(possible_new_line_save_point)
             /\ possible_new_line_save_point.new_line_group_depth < new_line_group_depth
          THEN RewindsToSavePoint
          ELSE NewLineAtCurrentPosition]_vars

\* A SpaceOrNewLine inside a group overflowed and the driver rewound to a
\* save-point made outside the group.
C17_Witness ==
  /\ pc = "print"
  /\ last.rewind
  /\ last.is_for_new_line
  /\ ItemAt(last.from) = Sig("SpaceOrNewLine")
  /\ last.save_point.new_line_group_depth = 0

\* ------------------------------------------------------------------ C18
\* The next step handles an Info that a look-ahead info save-point waits for.
InfoAwaited ==
  /\ Printing("Info")
  /\ ItemAt(current_node).id \in DOMAIN look_ahead_info_save_points

\* The step records the Info's position and removes its look-ahead entry.
InfoRecordedAndConsumed ==
  /\ resolved_infos' =
       MapInsert(resolved_infos, ItemAt(current_node).id, writer_info_of(writer))
  /\ ItemAt(current_node).id \notin DOMAIN look_ahead_info_save_points'

\* C18 as claimed: handling an Info that a look-ahead info save-point waits
\* for records the Info's position, removes the look-ahead entry and does
\* not rewind: the writer and the depths stay and the driver advances to the
\* node after the Info.
C18_AwaitedInfoDoesNotRewind ==
  [][InfoAwaited
       => /\ InfoRecordedAndConsumed
          /\ ~last'.rewind
          /\ writer' = writer
          /\ new_line_group_depth' = new_line_group_depth
          /\ force_no_newlines_depth' = force_no_newlines_depth
          /\ current_node' =
               move_next([ThePrinter EXCEPT !.skip_moving_next = FALSE]).current_node]_vars

\* C18 amended: handling an Info that a look-ahead info save-point waits for
\* records the Info's position, removes the look-ahead entry and rewinds to
\* that save-point, not for a new line: the writer state, the depths, the
\* next-node stack and the possible-new-line save-point are reset to the
\* save-point's and the driver continues at the save-point's node.
C18_AwaitedInfoRewinds ==
  [][InfoAwaited
       => LET save_point == look_ahead_info_save_points[ItemAt(current_node).id]
          IN  /\ InfoRecordedAndConsumed
              /\ last'.rewind
              /\ ~last'.is_for_new_line
              /\ last'.from = current_node
              /\ last'.save_point = save_point
              /\ writer' = save_point.writer_state
              /\ new_line_group_depth' = save_point.new_line_group_depth
              /\ force_no_newlines_depth' = save_point.force_no_newlines_depth
              /\ next_node_stack' = save_point.next_node_stack
              /\ possible_new_line_save_point' = save_point.possible_new_line_save_point
              /\ current_node' = save_point.node]_vars

\* An awaited Info was handled after the writer had moved on from the
\* save-point, and the driver is back at the save-point.
C18_Witness ==
  /\ pc = "print"
  /\ last.rewind
  /\ ~last.is_for_new_line
  /\ ItemAt(last.from).kind = "Info"
  /\ ItemAt(last.from).id \in DOMAIN resolved_infos
  /\ resolved_infos[ItemAt(last.from).id] # writer_info_of(last.save_point.writer_state)
  /\ writer = last.save_point.writer_state

\* ------------------------------------------------------------------ C19
\* The next step handles an Info that no look-ahead save-point waits for and
\* that conditions are registered for.
InfoOfConditions ==
  /\ Printing("Info")
  /\ ItemAt(current_node).id \notin DOMAIN look_ahead_info_save_points
  /\ ItemAt(current_node).id \in DOMAIN conditions_for_infos

ConditionsOfInfo == conditions_for_infos[ItemAt(current_node).id]

\* The stored result of a condition is Some(_).
StoredSome(condition_id) ==
  /\ condition_id \in DOMAIN resolved_conditions
  /\ resolved_conditions[condition_id] # "none"

\* What the condition's resolver returns on a context anchored at the writer
\* info of the save-point registered with it, the Info's position recorded.
NewResult(condition_id) ==
  LET save_point == ConditionsOfInfo[condition_id].save_point
  IN  resolve([ThePrinter EXCEPT
                 !.resolved_infos = MapInsert(@, ItemAt(current_node).id,
                                              writer_info_of(writer)),
                 !.resolving_save_point = save_point],
              ConditionsOfInfo[condition_id].condition,
              writer_info_of(save_point.writer_state)).value

\* Option<bool>: the stored result of a condition, None when there is none.
StoredResult(condition_id) ==
  IF condition_id \in DOMAIN resolved_conditions
  THEN resolved_conditions[condition_id] ELSE "none"

\* The step rewinds to the save-point, not for a new line.
RewindsTo(save_point) ==
  /\ last'.rewind
  /\ ~last'.is_for_new_line
  /\ last'.from = current_node
  /\ last'.save_point = save_point
  /\ writer' = save_point.writer_state
  /\ current_node' = save_point.node

\* The step goes on to the node after the Info, the writer as it was.
GoesOn ==
  /\ ~last'.rewind
  /\ writer' = writer
  /\ current_node' =
       move_next([ThePrinter EXCEPT !.skip_moving_next = FALSE]).current_node

ConditionValue ==
  LET condition == ItemAt(current_node)
      p1 == register_dependent_infos(ThePrinter, condition, condition.dependent_infos)
  IN  resolve(p1, condition, get_writer_info(p1)).value

\* The step rewinds to a save-point located at a Condition, which was taken
\* before that condition's result was memoized.
RewindsToBeforeCondition ==
  /\ last'.rewind
  /\ IsNode(last'.save_point.node)
  /\ ItemAt(last'.save_point.node).kind = "Condition"
  /\ ItemAt(last'.save_point.node).is_stored

\* C20 as claimed: resolved_conditions has an entry for a condition id if and
\* only if the condition was resolved to Some(_) while is_stored and no later
\* rewind invalidated it: a stored condition that resolved to None has no
\* entry, one that resolved to Some(v) has the entry v, and after a rewind to
\* a save-point taken before the condition was handled the entry is gone.
C20_EntriesOnlyOfLiveSomeResults ==
  [][/\ (Printing("Condition") /\ ItemAt(current_node).is_stored)
          => IF ConditionValue = "none"
             THEN ItemAt(current_node).id \notin DOMAIN resolved_conditions'
             ELSE resolved_conditions'[ItemAt(current_node).id] = ConditionValue
     /\ RewindsToBeforeCondition
          => ItemAt(last'.save_point.node).id \notin DOMAIN resolved_conditions']_vars

\* C20 amended: resolved_conditions has an entry for a condition id if and
\* only if the condition was handled while is_stored and the entry has not
\* been removed since by a re-resolution to None when one of its dependent
\* Infos was handled: handling a stored condition writes its result, None
\* included, handling one that is not stored writes nothing, only the handling
\* of an Info removes entries, and no rewind changes the entries.
C20_EntriesOfStoredConditions ==
  [][/\ Printing("Condition")
          => resolved_conditions' =
               IF ItemAt(current_node).is_stored
               THEN MapInsert(resolved_conditions, ItemAt(current_node).id,
                              ConditionValue)
               ELSE resolved_conditions
     /\ Printing("Info")
          => /\ DOMAIN resolved_conditions' \subseteq DOMAIN resolved_conditions
             /\ \A c \in DOMAIN resolved_conditions' :
                  resolved_conditions'[c] = resolved_conditions[c]
             /\ \A c \in DOMAIN resolved_conditions \ DOMAIN resolved_conditions' :
                  /\ InfoOfConditions
                  /\ c \in DOMAIN ConditionsOfInfo
                  /\ StoredSome(c)
                  /\ NewResult(c) = "none"
             /\ last'.rewind => UNCHANGED resolved_conditions
     /\ ~(Printing("Condition") \/ Printing("Info"))
          => UNCHANGED resolved_conditions]_vars

\* The driver has rewound to a stored condition whose earlier result None is
\* still an entry of resolved_conditions.
C20_Witness ==
  /\ Printing("Condition")
  /\ last.rewind
  /\ last.save_point.node = current_node
  /\ ItemAt(current_node).is_stored
  /\ ItemAt(current_node).id \in DOMAIN resolved_conditions
  /\ resolved_conditions[ItemAt(current_node).id] = "none"

\* ------------------------------------------------------------------ C21
\* C21: every job traverses each Info and Condition that its resolvers ask
\* for, so when the print loop has ended no look-ahead save-point, of an
\* info or of a condition, is registered any more.
C21_NoLookAheadLeftAtEnd ==
  pc = "done"
    => /\ look_ahead_info_save_points = EmptyMap
       /\ look_ahead_condition_save_points = EmptyMap

\* ------------------------------------------------------------------ C22
\* The next step handles a String that overflows while a save-point is live
\* and new lines are allowed.
StringOverflowsWithSavePoint ==
  /\ Printing("String")
  /\ IsSome(possible_new_line_save_point)
  /\ get_line_column(writer) + ItemAt(current_node).char_count > max_width
  /\ force_no_newlines_depth = 0

TextCount(items) == Cardinality({i \in 1..Len(items) : items[i].kind = "Text"})

\* The step writes no text: it restores the save-point, writes the newline
\* there and clears the save-point.
RestoresAndBreaks ==
  /\ last'.rewind
  /\ last'.is_for_new_line
  /\ last'.save_point = possible_new_line_save_point
  /\ writer' = writer_new_line(possible_new_line_save_point.writer_state)
  /\ TextCount(writer'.items) = TextCount(possible_new_line_save_point.writer_state.items)
  /\ current_node' = possible_new_line_save_point.node
  /\ ~IsSome(possible_new_line_save_point')

\* The step puts the text last on the line the writer is on, the column
\* grown by char_count.
AppendsText ==
  /\ ~last'.rewind
  /\ writer'.items[Len(writer'.items)]
       = WriteItem("Text", ItemAt(current_node).text, 0)
  /\ writer'.current_line_number = writer.current_line_number
  /\ get_line_column(writer')
       = get_line_column(writer) + ItemAt(current_node).char_count
  /\ UNCHANGED possible_new_line_save_point

\* The column a text written next on the writer's line starts at: the
\* line's indentation when the line is empty and indentation is not ignored.
StartColumn(w) ==
  IF w.current_line_column = 0 /\ w.ignore_indent_count = 0
  THEN indent_width * w.indent_level
  ELSE w.current_line_column

\* The step puts the text last on the line the writer is on, the column
\* grown by char_count from where the text starts.
WritesText ==
  /\ ~last'.rewind
  /\ writer'.items[Len(writer'.items)]
       = WriteItem("Text", ItemAt(current_node).text, 0)
  /\ TextCount(writer'.items) = TextCount(writer.items) + 1
  /\ writer'.current_line_number = writer.current_line_number
  /\ writer'.current_line_column
       = StartColumn(writer) + ItemAt(current_node).char_count
  /\ UNCHANGED possible_new_line_save_point

\* The step writes the newline owed to an ExpectNewLine and puts the text
\* first on the new line.
BreaksAndWritesText ==
  /\ ~last'.rewind
  /\ writer'.items[Len(writer'.items)]
       = WriteItem("Text", ItemAt(current_node).text, 0)
  /\ TextCount(writer'.items) = TextCount(writer.items) + 1
  /\ writer'.current_line_number = writer.current_line_number + 1
  /\ writer'.current_line_column
       = StartColumn(writer_new_line(writer)) + ItemAt(current_node).char_count
  /\ UNCHANGED possible_new_line_save_point

\* C22 as claimed: a String that overflows while a save-point is live and new
\* lines are allowed writes no text: the driver restores the save-point,
\* writes a newline there and clears the save-point; every other String is
\* appended at the current position, the column growing by char_count,
\* whatever the group depths.
C22_StringRewindsOrAppends ==
  [][Printing("String")
       => IF StringOverflowsWithSavePoint THEN RestoresAndBreaks
          ELSE AppendsText]_vars

\* C22 amended: a String that overflows while a save-point is live and new
\* lines are allowed writes no text: the driver restores the save-point,
\* writes a newline there and clears the save-point; every other String is
\* written by the writer, whatever the group depths: last on the current
\* line, or first on a new line when a newline is owed to an ExpectNewLine,
\* the column growing by char_count from where the text starts, which on an
\* empty line is the indentation, or 0 while indentation is ignored.
C22_StringRewindsOrIsWritten ==
  [][Printing("String")
       => IF StringOverflowsWithSavePoint THEN RestoresAndBreaks
          ELSE IF writer.expect_newline_next THEN BreaksAndWritesText
          ELSE WritesText]_vars

\* A String overflowed inside a new-line group while the save-point of a
\* SpaceOrNewLine of the same depth was live, and the driver rewound.
C22_Witness ==
  /\ pc = "print"
  /\ last.rewind
  /\ last.is_for_new_line
  /\ ItemAt(last.from).kind = "String"
  /\ last.save_point.new_line_group_depth > 0

\* ------------------------------------------------------------------ C23
\* The next step calls mark_possible_new_line_if_able: it handles a
\* PossibleNewLine, or a SpaceOrNewLine that fits, with new lines allowed.
MarksPossibleNewLine ==
  /\ Printing("Signal")
  /\ force_no_newlines_depth = 0
  /\ \/ ItemAt(current_node).signal = "PossibleNewLine"
     \/ /\ ItemAt(current_node).signal = "SpaceOrNewLine"
        /\ get_line_column(writer) + 1 <= max_width

\* C23: mark_possible_new_line_if_able keeps a live save-point recorded at a
\* depth below the current new-line-group depth; otherwise it makes a
\* save-point of the current state that points at the successor of the
\* current node, replacing one of the same or a greater depth, so a
\* replacement never raises the recorded depth.
C23_KeepsShallowerSavePoint ==
  [][MarksPossibleNewLine
       => IF /\ IsSome(possible_new_line_save_point)
             /\ possible_new_line_save_point.new_line_group_depth < new_line_group_depth
          THEN UNCHANGED possible_new_line_save_point
          ELSE /\ possible_new_line_save_point'
                    = create_save_point(ThePrinter, "newline", get_next(current_node))
               /\ possible_new_line_save_point'.node = get_next(current_node)
               /\ possible_new_line_save_point'.writer_state = writer
               /\ possible_new_line_save_point'.new_line_group_depth = new_line_group_depth
               /\ IsSome(possible_new_line_save_point)
                    => possible_new_line_save_point'.new_line_group_depth
                         <= possible_new_line_save_point.new_line_group_depth]_vars

\* A PossibleNewLine or SpaceOrNewLine inside a group has just been handled
\* and the save-point made outside the group is still the live one.
C23_Witness ==
  /\ pc = "print"
  /\ ~last.rewind
  /\ IsNode(current_node)
  /\ current_node.idx > 1
  /\ ItemAt([current_node EXCEPT !.idx = @ - 1]).signal
       \in {"PossibleNewLine", "SpaceOrNewLine"}
  /\ new_line_group_depth > 0
  /\ IsSome(possible_new_line_save_point)
  /\ possible_new_line_save_point.new_line_group_depth < new_line_group_depth

\* ------------------------------------------------------------------ C24
\* A look-ahead condition save-point is registered for the condition about
\* to be handled.
ConditionAwaited ==
  /\ Printing("Condition")
  /\ ItemAt(current_node).id \in DOMAIN look_ahead_condition_save_points

\* C24: handling a Condition that resolves to Some(_) while a look-ahead
\* condition save-point is registered for its id removes the entry and
\* rewinds to that save-point, entering no arm; with no entry, or with the
\* result None, there is no rewind and an entry stays registered.
C24_AwaitedConditionRewinds ==
  [][Printing("Condition")
       => IF ConditionAwaited /\ ConditionValue # "none"
          THEN LET save_point ==
                     look_ahead_condition_save_points[ItemAt(current_node).id]
               IN  /\ last'.rewind
                   /\ ~last'.is_for_new_line
                   /\ last'.from = current_node
                   /\ last'.save_point = save_point
                   /\ ItemAt(current_node).id
                        \notin DOMAIN look_ahead_condition_save_points'
                   /\ current_node' = save_point.node
                   /\ next_node_stack' = save_point.next_node_stack
                   /\ writer' = save_point.writer_state
          ELSE /\ ~last'.rewind
               /\ ConditionAwaited
                    => /\ ItemAt(current_node).id
                            \in DOMAIN look_ahead_condition_save_points'
                       /\ look_ahead_condition_save_points'[ItemAt(current_node).id]
                            = look_ahead_condition_save_points[ItemAt(current_node).id]]_vars

\* A Condition that another condition's resolver had asked for resolved to
\* Some(_), and the driver is back at the asking condition.
C24_Witness ==
  /\ Printing("Condition")
  /\ last.rewind
  /\ ~last.is_for_new_line
  /\ ItemAt(last.from).kind = "Condition"
  /\ ItemAt(last.from).id \in DOMAIN resolved_conditions
  /\ resolved_conditions[ItemAt(last.from).id] # "none"
  /\ last.from # current_node
  /\ ItemAt(last.from).id \notin DOMAIN look_ahead_condition_save_points

\* ------------------------------------------------------------------ C25
\* Where handling goes on when the driver is to continue at a node with the
\* given continuations: at the node, or, when there is none, at the nearest
\* continuation that is a node.
RECURSIVE ResumeAt(_, _)
ResumeAt(node, stack) ==
  IF IsNode(node) \/ stack = <<>> THEN [node |-> node, stack |-> stack]
  ELSE ResumeAt(stack[Len(stack)], SubSeq(stack, 1, Len(stack) - 1))

GoesTo(node, stack) ==
  /\ current_node' = ResumeAt(node, stack).node
  /\ next_node_stack' = ResumeAt(node, stack).stack

\* The arm of the condition about to be handled that its result chooses.
ChosenArm ==
  IF ConditionValue = "true" THEN PathHead(ItemAt(current_node).true_path)
  ELSE PathHead(ItemAt(current_node).false_path)

\* C25: a step that does not rewind goes on as follows. After a Condition,
\* at the head of true_path for Some(true) and of false_path for Some(false)
\* or None, with the Condition's next kept as continuation, or at the
\* Condition's next when that arm is absent; after an RcPath, in its path
\* with the RcPath's next kept as continuation; after any other node, at its
\* next; and where there is no next, at the most recent continuation. The
\* loop ends only with no current node and no continuation left.
C25_ContinuationOrder ==
  [][/\ (pc = "print" /\ IsNode(current_node) /\ ~last'.rewind)
          => CASE ItemAt(current_node).kind = "Condition" ->
                    IF IsNode(ChosenArm)
                    THEN /\ current_node' = ChosenArm
                         /\ next_node_stack'
                              = Append(next_node_stack, get_next(current_node))
                    ELSE GoesTo(get_next(current_node), next_node_stack)
               [] ItemAt(current_node).kind = "RcPath" ->
                    GoesTo(PathHead(ItemAt(current_node).true_path),
                           Append(next_node_stack, get_next(current_node)))
               [] OTHER -> GoesTo(get_next(current_node), next_node_stack)
     /\ pc' = "done" => ~IsNode(current_node) /\ next_node_stack = <<>>
     /\ (pc = "print" /\ ~IsNode(current_node)) => pc' = "done"]_vars

\* The true arm of a condition was handled to its end and handling resumed
\* at the node after the condition.
C25_Witness ==
  /\ pc = "print"
  /\ job.family = "condition"
  /\ job.body # <<>>
  /\ ~last.rewind
  /\ current_node = [path |-> 1, idx |-> 3]
  /\ next_node_stack = <<>>
  /\ 1 \in DOMAIN resolved_conditions
  /\ resolved_conditions[1] = "true"
  /\ writer.items # <<>>

\* ------------------------------------------------------------------ C26
\* C26: after a rewind that is not for a new line the writer state, both
\* depths, the current node, the continuations, both look-ahead tables and
\* the possible-new-line save-point are those the save-point captured, and
\* the node handled next is the save-point's node.
C26_RewindRestoresSavePoint ==
  [][(last'.rewind /\ ~last'.is_for_new_line)
       => LET save_point == last'.save_point
          IN  /\ writer' = save_point.writer_state
              /\ new_line_group_depth' = save_point.new_line_group_depth
              /\ force_no_newlines_depth' = save_point.force_no_newlines_depth
              /\ IsNode(save_point.node)
              /\ current_node' = save_point.node
              /\ next_node_stack' = save_point.next_node_stack
              /\ look_ahead_condition_save_points'
                   = save_point.look_ahead_condition_save_points
              /\ look_ahead_info_save_points' = save_point.look_ahead_info_save_points
              /\ possible_new_line_save_point' = save_point.possible_new_line_save_point
              /\ ~skip_moving_next'
              /\ pc' = "print"]_vars

\* The driver has rewound, not for a new line, out of an arm to a save-point
\* of the start path whose writer state, continuations and live save-point
\* differ from what the rewinding step had.
C26_Witness ==
  /\ pc = "print"
  /\ last.rewind
  /\ ~last.is_for_new_line
  /\ current_node = last.save_point.node
  /\ writer = last.save_point.writer_state
  /\ next_node_stack = last.save_point.next_node_stack
  /\ last.from.path # current_node.path

\* ------------------------------------------------------------------ C27
\* A rewind that is not for a new line writes nothing and restores the live
\* save-point from the save-point.
PlainRewindWritesNothing ==
  (last'.rewind /\ ~last'.is_for_new_line)
    => /\ writer'.items = last'.save_point.writer_state.items
       /\ possible_new_line_save_point'
            = last'.save_point.possible_new_line_save_point

\* C27 as claimed: a rewind for a new line leaves no live save-point and the
\* output is the output at the save-point's creation followed by one NewLine;
\* a rewind that is not for a new line writes nothing and restores the live
\* save-point from the save-point.
C27_NewLineRewindAppendsNewLine ==
  [][/\ (last'.rewind /\ last'.is_for_new_line)
          => /\ ~IsSome(possible_new_line_save_point')
             /\ writer'.items
                  = Append(last'.save_point.writer_state.items,
                           WriteItem("NewLine", "", 0))
     /\ PlainRewindWritesNothing]_vars

\* C27 amended: a rewind for a new line leaves no live save-point and writes
\* exactly one newline on the restored writer state: the output is the output
\* at the save-point's creation, less a trailing space that
\* SpaceIfNotTrailing had written last, followed by one NewLine; a rewind
\* that is not for a new line writes nothing and restores the live save-point
\* from the save-point.
C27_NewLineRewindWritesNewLine ==
  [][/\ (last'.rewind /\ last'.is_for_new_line)
          => LET then == last'.save_point.writer_state
                 kept == IF then.last_was_not_trailing_space
                         THEN SubSeq(then.items, 1, Len(then.items) - 1)
                         ELSE then.items
             IN  /\ ~IsSome(possible_new_line_save_point')
                 /\ writer' = writer_new_line(then)
                 /\ writer'.items = Append(kept, WriteItem("NewLine", "", 0))
                 /\ NewLineCount(writer'.items) = NewLineCount(then.items) + 1
                 /\ then.last_was_not_trailing_space
                      => then.items[Len(then.items)].kind = "Space"
     /\ PlainRewindWritesNothing]_vars

\* The driver has rewound for a new line to a save-point whose output ended
\* with the space of a SpaceIfNotTrailing, and the newline took its place.
C27_Witness ==
  /\ pc = "print"
  /\ last.rewind
  /\ last.is_for_new_line
  /\ last.save_point.writer_state.last_was_not_trailing_space
  /\ Len(writer.items) = Len(last.save_point.writer_state.items)
  /\ writer.items[Len(writer.items)].kind = "NewLine"

\* ------------------------------------------------------------------ C28
\* C28 as claimed: a live possible-new-line save-point was captured with
\* force_no_newlines_depth = 0, and no newline has been written since: its
\* writer state is on the line the writer is on.
C28_SavePointOnCurrentLine ==
  IsSome(possible_new_line_save_point)
    => /\ possible_new_line_save_point.force_no_newlines_depth = 0
       /\ possible_new_line_save_point.writer_state.current_line_number
            = writer.current_line_number

\* C28 amended: a live possible-new-line save-point was captured with
\* force_no_newlines_depth = 0, and no newline has been written since, but
\* for the one the writer owes to an ExpectNewLine: a save-point captured
\* after an ExpectNewLine and before the next write stays live when the
\* writer then writes that newline, and is one line behind.
C28_SavePointOnCurrentLineUnlessOwed ==
  IsSome(possible_new_line_save_point)
    => /\ possible_new_line_save_point.force_no_newlines_depth = 0
       /\ IF possible_new_line_save_point.writer_state.expect_newline_next
             /\ ~writer.expect_newline_next
          THEN writer.current_line_number
                 = possible_new_line_save_point.writer_state.current_line_number + 1
          ELSE writer.current_line_number
                 = possible_new_line_save_point.writer_state.current_line_number

\* A save-point captured while a newline was owed is live and the writer has
\* written that newline and a text after it.
C28_Witness ==
  /\ pc = "print"
  /\ IsSome(possible_new_line_save_point)
  /\ possible_new_line_save_point.writer_state.expect_newline_next
  /\ writer.current_line_number
       = possible_new_line_save_point.writer_state.current_line_number + 1
  /\ writer.items[Len(writer.items)].kind = "Text"

\* ------------------------------------------------------------------ C29
HandlesExpectNewLine ==
  /\ Printing("Signal")
  /\ ItemAt(current_node).signal = "ExpectNewLine"

\* The live save-point was made with as many ExpectNewLine marks behind it
\* as the writer has now: no ExpectNewLine was handled since.
SavePointNotBeforeExpectNewLine ==
  IsSome(possible_new_line_save_point)
    => possible_new_line_save_point.writer_state.expect_new_lines
         = writer.expect_new_lines

\* C29: handling ExpectNewLine always marks the writer as owing a newline
\* before the next text and clears possible_new_line_save_point, also when
\* force_no_newlines_depth > 0; so a live save-point is never one made
\* before an ExpectNewLine that is still in effect, and a String that
\* overflows after an ExpectNewLine never rewinds to such a save-point.
C29_ExpectNewLineClearsSavePoint ==
  [][/\ HandlesExpectNewLine
          => /\ writer'.expect_newline_next
             /\ writer'.expect_new_lines = writer.expect_new_lines + 1
             /\ ~IsSome(possible_new_line_save_point')
             /\ ~last'.rewind
     /\ SavePointNotBeforeExpectNewLine'
     /\ (Printing("String") /\ last'.rewind)
          => /\ last'.save_point = possible_new_line_save_point
             /\ last'.save_point.writer_state.expect_new_lines
                  = writer.expect_new_lines]_vars

\* A String that does not fit is reached after PossibleNewLine, "aa" and an
\* ExpectNewLine handled inside with_no_new_lines: the newline is owed and
\* no save-point is live.
C29_Witness ==
  /\ pc = "print"
  /\ job.prefix = <<Sig("PossibleNewLine"), Str("aa", 2)>>
  /\ job.wrap = "with_no_new_lines"
  /\ job.body = <<Sig("ExpectNewLine")>>
  /\ Printing("String")
  /\ force_no_newlines_depth = 0
  /\ get_line_column(writer) + ItemAt(current_node).char_count > max_width
  /\ writer.expect_newline_next
  /\ writer.expect_new_lines = 1
  /\ ~IsSome(possible_new_line_save_point)

\* ------------------------------------------------------------------ C30
\* The ids a condition's resolver may ask the printer about.
QueriesInfo(condition, info_id) ==
  \/ /\ condition.resolver = "newlineIfMultiLine"
     /\ info_id \in {condition.start_info, condition.end_info}
  \/ /\ condition.resolver = "isInfoBeyond"
     /\ info_id = condition.end_info

QueriesCondition(condition, condition_id) ==
  /\ condition.resolver = "isConditionTrue"
  /\ condition_id = condition.arg

\* The save-point is the site of the condition being handled, or, while
\* handle_info resolves the conditions of the info again, the save-point
\* registered with one of them.
SiteOfCurrentCondition(save_point) ==
  /\ Printing("Condition")
  /\ save_point.node = current_node
  /\ save_point.writer_state = writer

SiteOfDependentCondition(save_point) ==
  /\ Printing("Info")
  /\ ItemAt(current_node).id \in DOMAIN conditions_for_infos
  /\ \E c \in DOMAIN conditions_for_infos[ItemAt(current_node).id] :
       conditions_for_infos[ItemAt(current_node).id][c].save_point = save_point

\* A look-ahead entry is a save-point at a Condition that asks about the id.
AtQueryingCondition(save_point, id, of_info) ==
  /\ IsNode(save_point.node)
  /\ ItemAt(save_point.node).kind = "Condition"
  /\ IF of_info THEN QueriesInfo(ItemAt(save_point.node), id)
                ELSE QueriesCondition(ItemAt(save_point.node), id)

\* What a step may do to the entry of an id in a look-ahead table.
EntryKept(table, table2, id, unresolved, of_info) ==
  /\ (id \in DOMAIN table /\ id \in DOMAIN table2 /\ ~last'.rewind)
       => table2[id] = table[id]
  /\ (id \notin DOMAIN table /\ id \in DOMAIN table2 /\ ~last'.rewind)
       => /\ unresolved
          /\ SiteOfCurrentCondition(table2[id]) \/ SiteOfDependentCondition(table2[id])
  /\ (id \in DOMAIN table /\ id \notin DOMAIN table2) => last'.rewind
  /\ id \in DOMAIN table2 => AtQueryingCondition(table2[id], id, of_info)

\* C30: each look-ahead table holds at most one save-point per id, and a
\* query never replaces a registered entry: an entry is registered for an
\* unresolved id at the site of the condition whose resolver asked first,
\* stays as it is through every later step that does not rewind, and
\* leaves the table only in a step that rewinds (consumed by the handler of
\* its id or dropped with the restored tables).
C30_LookAheadEntryIsFirstQuery ==
  [][/\ \A id \in DOMAIN look_ahead_info_save_points
                     \cup DOMAIN look_ahead_info_save_points' :
          EntryKept(look_ahead_info_save_points, look_ahead_info_save_points',
                    id, id \notin DOMAIN resolved_infos', TRUE)
     /\ \A id \in DOMAIN look_ahead_condition_save_points
                     \cup DOMAIN look_ahead_condition_save_points' :
          EntryKept(look_ahead_condition_save_points, look_ahead_condition_save_points',
                    id, id \notin DOMAIN resolved_conditions', FALSE)
     /\ last'.rewind
          => /\ look_ahead_info_save_points'
                  = last'.save_point.look_ahead_info_save_points
             /\ look_ahead_condition_save_points'
                  = last'.save_point.look_ahead_condition_save_points]_vars

\* The second condition of "queried_twice" has asked for info 1 before it
\* is printed: the entry is still the site of the first condition.
C30_Witness ==
  /\ job.family = "queried_twice"
  /\ Printing("Info")
  /\ 1 \notin DOMAIN resolved_infos
  /\ 1 \in DOMAIN look_ahead_info_save_points
  /\ look_ahead_info_save_points[1].node = [path |-> 1, idx |-> 1]

\* ------------------------------------------------------------------ C31
\* The save-point holds the writer state, continuations and look-ahead
\* tables the driver has in this state.
CapturesCurrentState(save_point) ==
  /\ save_point.writer_state = writer
  /\ save_point.next_node_stack = next_node_stack
  /\ save_point.look_ahead_info_save_points = look_ahead_info_save_points
  /\ save_point.look_ahead_condition_save_points = look_ahead_condition_save_points
  /\ save_point.new_line_group_depth = new_line_group_depth
  /\ save_point.force_no_newlines_depth = force_no_newlines_depth
  /\ save_point.possible_new_line_save_point = possible_new_line_save_point

\* What a step without a rewind may do to the look-ahead entry of an id: an
\* entry that stays is the same save-point, and an entry made at the
\* condition being handled holds the state the step started from, its own
\* entry not among the captured ones.
EntryIsSnapshot(table, table2, id) ==
  /\ (id \in DOMAIN table /\ id \in DOMAIN table2) => table2[id] = table[id]
  /\ (id \notin DOMAIN table /\ id \in DOMAIN table2 /\ Printing("Condition"))
       => /\ CapturesCurrentState(table2[id])
          /\ table2[id].node = current_node
          /\ id \notin DOMAIN table2[id].look_ahead_info_save_points
                          \cup DOMAIN table2[id].look_ahead_condition_save_points

\* C31: a save-point holds what the driver had when it was made and nothing
\* done afterwards changes it: a step that makes one captures the writer
\* state, continuations and look-ahead tables of the state it starts from
\* (a look-ahead entry is not in its own snapshot), a save-point that stays
\* referenced by the driver stays equal through insertions, removals,
\* pushes, pops and writes, and a rewind leaves the driver with exactly
\* the tables, continuations and writer state the save-point holds.
C31_SavePointKeepsItsSnapshot ==
  [][/\ ~last'.rewind
          => /\ \/ ~IsSome(possible_new_line_save_point')
                \/ possible_new_line_save_point' = possible_new_line_save_point
                \/ /\ CapturesCurrentState(possible_new_line_save_point')
                   /\ possible_new_line_save_point'.node = get_next(current_node)
             /\ \A id \in DOMAIN look_ahead_info_save_points' :
                  EntryIsSnapshot(look_ahead_info_save_points,
                                  look_ahead_info_save_points', id)
             /\ \A id \in DOMAIN look_ahead_condition_save_points' :
                  EntryIsSnapshot(look_ahead_condition_save_points,
                                  look_ahead_condition_save_points', id)
     /\ last'.rewind
          => /\ look_ahead_info_save_points'
                  = last'.save_point.look_ahead_info_save_points
             /\ look_ahead_condition_save_points'
                  = last'.save_point.look_ahead_condition_save_points
             /\ next_node_stack' = last'.save_point.next_node_stack
             /\ writer' = IF last'.is_for_new_line
                          THEN writer_new_line(last'.save_point.writer_state)
                          ELSE last'.save_point.writer_state]_vars

\* An awaited Info is about to be handled inside an arm: since its
\* look-ahead save-point was made, text was written, a continuation was
\* pushed and the entry itself was inserted.
C31_Witness ==
  /\ Printing("Info")
  /\ ItemAt(current_node).id \in DOMAIN look_ahead_info_save_points
  /\ LET save_point == look_ahead_info_save_points[ItemAt(current_node).id]
     IN  /\ save_point.writer_state # writer
         /\ save_point.next_node_stack # next_node_stack
         /\ save_point.look_ahead_info_save_points # look_ahead_info_save_points
         /\ ItemAt(current_node).id \notin DOMAIN save_point.look_ahead_info_save_points

\* ------------------------------------------------------------------ C32
\* C32: the calls of increment on one cell return, one after the other, the
\* count the cell started with plus 1, 2, 3, ...: each value is greater
\* than every value returned before it, so the values are pairwise
\* distinct, for as long as the count has not passed the largest usize.
C32_IncrementReturnsNextCount ==
  (pc = "returned" /\ returned.fn = "increment")
    => \A i \in 1..Len(returned.values) :
         call.cell.counter + i <= UsizeMax
           => /\ returned.values[i] = call.cell.counter + i
              /\ \A j \in 1..(i - 1) : returned.values[j] < returned.values[i]

\* Three calls on a new cell have returned 1, 2 and 3.
C32_Witness ==
  /\ pc = "returned"
  /\ returned.fn = "increment"
  /\ call.cell.counter = 0
  /\ returned.values = <<1, 2, 3>>

\* ------------------------------------------------------------------ C33
IsTextItem(item) == item.kind = "Text"

\* The texts of the Text write-items, in order.
TextsOf(items) ==
  LET texts == SelectSeq(items, IsTextItem)
  IN  [i \in 1..Len(texts) |-> texts[i].text]

\* The texts of the String items from item i of chain q on, in order, an
\* RcPath's chain in its place and, for a Condition, the chain of the arm
\* that arms says was taken.
RECURSIVE StringsAlong(_, _, _)
StringsAlong(q, i, arms) ==
  IF q = NoPath THEN <<>>
  ELSE IF i > Len(paths[q]) THEN <<>>
  ELSE
    LET item == paths[q][i]
        rest == StringsAlong(q, i + 1, arms)
    IN  CASE item.kind = "String" -> <<item.text>> \o rest
          [] item.kind = "RcPath" -> StringsAlong(item.true_path, 1, arms) \o rest
          [] item.kind = "Condition" ->
               StringsAlong(IF item.id \in DOMAIN arms /\ arms[item.id]
                            THEN item.true_path ELSE item.false_path, 1, arms)
                 \o rest
          [] OTHER -> rest

\* The job has a Condition item.
HasCondition ==
  \E q \in DOMAIN paths : \E i \in DOMAIN paths[q] : paths[q][i].kind = "Condition"

\* C33: the texts of the final output are, in order, the texts of the
\* input's String items, RcPath chains in place and, for each Condition,
\* the chain of the arm taken when it was last handled; without Condition
\* items they are the input's Strings, whatever max_width is and however
\* many rewinds there were.
C33_OutputTextsAreInputStrings ==
  pc = "done" => TextsOf(writer.items) = StringsAlong(1, 1, writer.taken_arms)

\* Three words without a Condition are printed on more than one line.
C33_Witness ==
  /\ pc = "done"
  /\ job.family = "words"
  /\ ~HasCondition
  /\ Len(TextsOf(writer.items)) = 3
  /\ NewLineCount(writer.items) > 0

\* ------------------------------------------------------------------ C34
\* Handling the Info rewinds to the save-point registered with one of the
\* conditions that depend on it.
RewindsThroughConditionsForInfos ==
  /\ Printing("Info")
  /\ ItemAt(current_node).id \notin DOMAIN look_ahead_info_save_points
  /\ last'.rewind

\* The save-point is the one registered with a dependent condition of the
\* Info on the way to the current state: no rewind since has gone back
\* beyond the registration.
RegisteredOnLivePath(save_point) ==
  \E c \in DOMAIN conditions_for_infos[ItemAt(current_node).id] :
    /\ conditions_for_infos[ItemAt(current_node).id][c].save_point = save_point
    /\ c \in DOMAIN writer.registered
    /\ writer.registered[c] = save_point

\* C34: when handling an Info rewinds through conditions_for_infos, the
\* save-point used was registered after the most recent rewind to any
\* earlier point, so the state restored was not captured on a branch that
\* an earlier rewind discarded.
C34_RewindsToLiveSavePoint ==
  [][RewindsThroughConditionsForInfos => RegisteredOnLivePath(last'.save_point)]_vars

\* ------------------------------------------------------------------ C35
\* A step before the Info or Condition of the id is reached registers a
\* look-ahead save-point for the id: the table gets an entry for it from a
\* query, not from the tables a rewind restores.
RegistersInfo(info_id) ==
  /\ ~(Printing("Info") /\ ItemAt(current_node).id = info_id)
  /\ info_id \notin DOMAIN look_ahead_info_save_points
  /\ info_id \in DOMAIN look_ahead_info_save_points'
  /\ ~last'.rewind

RegistersCondition(condition_id) ==
  /\ ~(Printing("Condition") /\ ItemAt(current_node).id = condition_id)
  /\ condition_id \notin DOMAIN look_ahead_condition_save_points
  /\ condition_id \in DOMAIN look_ahead_condition_save_points'
  /\ ~last'.rewind

BrokenAfter(items) ==
  Append(IF Len(items) > 0 /\ items[Len(items)].kind = "Space"
         THEN SubSeq(items, 1, Len(items) - 1) ELSE items,
         WriteItem("NewLine", "", 0))

\* The save-point was marked at a SpaceOrNewLine: its node is the one after
\* the signal.
MarkedAtSpaceOrNewLine(save_point) ==
  /\ IsNode(save_point.node)
  /\ save_point.node.idx > 1
  /\ paths[save_point.node.path][save_point.node.idx - 1] = Sig("SpaceOrNewLine")

\* The SpaceOrNewLine being handled does not fit and the newline is written
\* at it.
BreaksAtSpaceOrNewLine ==
  /\ Printing("Signal")
  /\ ItemAt(current_node) = Sig("SpaceOrNewLine")
  /\ ~last'.rewind
  /\ writer'.current_line_number # writer.current_line_number

\* A step rewinds for a new line to the save-point marked at a
\* SpaceOrNewLine.
BreaksAtEarlierSpaceOrNewLine ==
  /\ last'.rewind
  /\ last'.is_for_new_line
  /\ MarkedAtSpaceOrNewLine(last'.save_point)

NoSpaceBeforeNewLine(items) ==
  \A i \in 2..Len(items) :
    items[i].kind = "NewLine" => items[i - 1].kind # "Space"

\* C36: a line break produced at a SpaceOrNewLine, directly on overflow or
\* by a later rewind to the save-point marked at it, replaces the space:
\* the output after the break is the output before the signal with a
\* NewLine in place of a trailing Space, the Space of the signal is not in
\* it, and no NewLine of the output is immediately preceded by a Space.
C36_BreakReplacesSpace ==
  /\ [](NoSpaceBeforeNewLine(writer.items))
  /\ [][/\ BreaksAtSpaceOrNewLine => writer'.items = BrokenAfter(writer.items)
        /\ BreaksAtEarlierSpaceOrNewLine
             => /\ writer'.items = BrokenAfter(last'.save_point.writer_state.items)
                /\ current_node' = last'.save_point.node]_vars

\* A step has rewound for a new line to the save-point marked at a
\* SpaceOrNewLine, which had captured an output ending with a text: the
\* space written after the mark is gone and the NewLine follows the text.
C36_Witness ==
  /\ pc = "print"
  /\ last.rewind
  /\ last.is_for_new_line
  /\ MarkedAtSpaceOrNewLine(last.save_point)
  /\ Len(last.save_point.writer_state.items) > 0
  /\ last.save_point.writer_state.items[Len(last.save_point.writer_state.items)].kind
       = "Text"
  /\ writer.items = BrokenAfter(last.save_point.writer_state.items)

\* ------------------------------------------------------------------ C37
\* The save-points the printer holds: the live one, those of the look-ahead
\* tables and those registered with the conditions of the infos.
HeldSavePoints ==
  (IF IsSome(possible_new_line_save_point) THEN {possible_new_line_save_point} ELSE {})
    \cup {look_ahead_info_save_points[i] : i \in DOMAIN look_ahead_info_save_points}
    \cup {look_ahead_condition_save_points[c] :
            c \in DOMAIN look_ahead_condition_save_points}
    \cup UNION {{conditions_for_infos[i][c].save_point :
                   c \in DOMAIN conditions_for_infos[i]} :
                i \in DOMAIN conditions_for_infos}

\* What update_state_to_save_point leaves as it is, and what it sets.
LeavesResolved(q) ==
  /\ q.resolved_infos = resolved_infos
  /\ q.resolved_conditions = resolved_conditions
  /\ q.stored_info_positions = stored_info_positions
  /\ q.conditions_for_infos = conditions_for_infos
  /\ q.resolving_save_point = resolving_save_point

SetsFrom(q, save_point, is_for_new_line) ==
  /\ q.writer = IF is_for_new_line THEN writer_new_line(save_point.writer_state)
                ELSE save_point.writer_state
  /\ q.possible_new_line_save_point
       = IF is_for_new_line THEN NoSavePoint
         ELSE save_point.possible_new_line_save_point
  /\ q.current_node = save_point.node
  /\ q.new_line_group_depth = save_point.new_line_group_depth
  /\ q.force_no_newlines_depth = save_point.force_no_newlines_depth
  /\ q.look_ahead_condition_save_points = save_point.look_ahead_condition_save_points
  /\ q.look_ahead_info_save_points = save_point.look_ahead_info_save_points
  /\ q.next_node_stack = save_point.next_node_stack
  /\ q.skip_moving_next

\* C37: update_state_to_save_point sets the writer state,
\* possible_new_line_save_point, current_node, the two depth counters, the
\* two look-ahead tables, next_node_stack and skip_moving_next, and leaves
\* resolved_infos, resolved_conditions, stored_info_positions and
\* conditions_for_infos as they are; so in a step that rewinds while a
\* String or a Signal is handled the four are unchanged, and the position
\* an Info recorded and the result a stored Condition recorded in the step
\* that rewinds are there after the rewind.
C37_RewindLeavesResolved ==
  /\ [](pc = "print" =>
          \A save_point \in HeldSavePoints : \A is_for_new_line \in BOOLEAN :
            LET q == update_state_to_save_point(ThePrinter, save_point, is_for_new_line)
            IN  LeavesResolved(q) /\ SetsFrom(q, save_point, is_for_new_line))
  /\ [][last'.rewind =>
          /\ (Printing("String") \/ Printing("Signal"))
               => UNCHANGED <<resolved_infos, resolved_conditions,
                              stored_info_positions, conditions_for_infos>>
          /\ Printing("Info")
               => /\ ItemAt(current_node).id \in DOMAIN resolved_infos'
                  /\ resolved_infos'[ItemAt(current_node).id] = writer_info_of(writer)
          /\ (Printing("Condition") /\ ItemAt(current_node).is_stored)
               => /\ ItemAt(current_node).id \in DOMAIN resolved_conditions'
                  /\ resolved_conditions'[ItemAt(current_node).id] # "none"]_vars

\* A rewind from an Info has gone back to an earlier position, and the
\* position the Info recorded on the abandoned branch is still resolved.
C37_Witness ==
  /\ pc = "print"
  /\ last.rewind
  /\ IsNode(last.from)
  /\ ItemAt(last.from).kind = "Info"
  /\ ItemAt(last.from).id \in DOMAIN resolved_infos
  /\ resolved_infos[ItemAt(last.from).id] # writer_info_of(writer)
  /\ conditions_for_infos # EmptyMap

\* ------------------------------------------------------------------ C38
\* get_plugin_config_map has returned the error: the value under the
\* plugin's config key was not an object.
PluginConfigFailed ==
  /\ PluginConfigReturned
  /\ ~returned.result.ok

\* C38 as stated: when get_plugin_config_map returns the error because the
\* value under the plugin's config key is not an object, config_map is as
\* it was before the call, the offending key included.
C38_FailedCallLeavesConfigMap ==
  PluginConfigFailed => returned.config_map = call.config_map

\* C38, amended: when get_plugin_config_map returns the error because the
\* value under the plugin's config key is not an object, the offending key
\* has been removed from config_map by the failed call, and every other key
\* and value is as it was.
C38_FailedCallRemovesTheKey ==
  PluginConfigFailed
    => /\ ConfigKey \in DOMAIN call.config_map
       /\ call.config_map[ConfigKey].kind # "HashMap"
       /\ DOMAIN returned.config_map = DOMAIN call.config_map \ {ConfigKey}
       /\ \A key \in DOMAIN returned.config_map :
            returned.config_map[key] = call.config_map[key]

\* The typescript key held a number, the call failed, and only lineWidth
\* is left in the map.
C38_Witness ==
  /\ PluginConfigFailed
  /\ ConfigKey = "typescript"
  /\ DOMAIN call.config_map = {"lineWidth", "typescript"}
  /\ call.config_map["typescript"] = ConfigMapValueKeyValue("80")
  /\ DOMAIN returned.config_map = {"lineWidth"}

====
